---------------------------- MODULE Spec2Model ----------------------------
(***************************************************************************)
(* BugFlow triage pipeline: report submission, the processReport           *)
(* orchestrator (inngest/functions/process-report), the BugAnalysisAgent   *)
(* (lib/ai/bug-analysis-agent.ts) and the EngineerAssignmentService        *)
(* (lib/assignment/engineer-assignment).                                   *)
(*                                                                         *)
(* Encoding conventions                                                    *)
(*  - a nullable column or value is a sequence of length 0 (None) or 1     *)
(*    (Some(x));                                                           *)
(*  - a text is a tuple of one-character strings, so that toLowerCase()    *)
(*    and includes() are computed and not assumed;                         *)
(*  - a confidence is a number of hundredths (0.3 is 30);                  *)
(*  - a cosine similarity dot/(|a|*|b|) is kept exactly as the record      *)
(*    [dot, na, nb] of the dot product and the two squared magnitudes, and *)
(*    compared by cross-multiplying squares (floating-point rounding is    *)
(*    not modelled).                                                       *)
(***************************************************************************)
EXTENDS Integers, Sequences, FiniteSets, TLC

\* ------------------------------------------------------------------ bounds
MaxReports == 3
\* report.submitted events that are delivered a second time
MaxRedeliveries == 1
\* rows of the report tables the services are called on directly
MaxStored == 12
\* active and critical reports of a candidate selectBestEngineer is called on
MaxActive == 2
MaxCritical == 1
\* reassignReport calls made one after another
MaxReassigns == 2
\* invocations of processReport that are at assign-engineer together
MaxAssigning == 2
\* runs of the cleanupOldReports job
MaxCleanups == 1

\* --------------------------------------------------------------- constants
TitleMin == 10
TitleMax == 200
DescriptionMin == 50
DescriptionMax == 5000
FallbackConfidence == 30
OrchestratorFallbackConfidence == 10
DuplicateThreshold == 85
MaxSimilar == 10
BaseScore == 100
ActivePenalty == 10
CriticalPenalty == 20
TeamBonus == 30
CriticalSeverityPenalty == 30

\* ----------------------------------------------------------------- options
None == <<>>
Some(x) == <<x>>
Get(o) == o[1]
IsSome(o) == o # <<>>

\* ------------------------------------------------------------------- texts
Space == <<" ">>

upperToLower ==
  [c \in {"A","B","C","D","E","F","G","H","I","J","K","L","M",
          "N","O","P","Q","R","S","T","U","V","W","X","Y","Z"} |->
     CASE c = "A" -> "a" [] c = "B" -> "b" [] c = "C" -> "c" [] c = "D" -> "d"
       [] c = "E" -> "e" [] c = "F" -> "f" [] c = "G" -> "g" [] c = "H" -> "h"
       [] c = "I" -> "i" [] c = "J" -> "j" [] c = "K" -> "k" [] c = "L" -> "l"
       [] c = "M" -> "m" [] c = "N" -> "n" [] c = "O" -> "o" [] c = "P" -> "p"
       [] c = "Q" -> "q" [] c = "R" -> "r" [] c = "S" -> "s" [] c = "T" -> "t"
       [] c = "U" -> "u" [] c = "V" -> "v" [] c = "W" -> "w" [] c = "X" -> "x"
       [] c = "Y" -> "y" [] c = "Z" -> "z"]

\* String.prototype.toLowerCase
toLowerCase(text) ==
  [i \in 1..Len(text) |->
     IF text[i] \in DOMAIN upperToLower THEN upperToLower[text[i]] ELSE text[i]]

\* String.prototype.includes
includes(text, pattern) ==
  \E i \in 1..(Len(text) - Len(pattern) + 1) :
     \A j \in 1..Len(pattern) : text[i + j - 1] = pattern[j]

\* bugTypePatterns of extractBugTypeFromText, in its iteration order
bugTypePatterns ==
  << [bugType |-> "XSS", patterns |->
        {<<"x", "s", "s">>,
         <<"c", "r", "o", "s", "s", "-", "s", "i", "t", "e", " ", "s", "c", "r", "i", "p", "t", "i", "n", "g">>,
         <<"s", "c", "r", "i", "p", "t", " ", "i", "n", "j", "e", "c", "t", "i", "o", "n">>,
         <<"j", "a", "v", "a", "s", "c", "r", "i", "p", "t", " ", "i", "n", "j", "e", "c", "t", "i", "o", "n">>}],
     [bugType |-> "SQL Injection", patterns |->
        {<<"s", "q", "l", " ", "i", "n", "j", "e", "c", "t", "i", "o", "n">>,
         <<"s", "q", "l", "i">>,
         <<"d", "a", "t", "a", "b", "a", "s", "e", " ", "i", "n", "j", "e", "c", "t", "i", "o", "n">>,
         <<"u", "n", "i", "o", "n", " ", "s", "e", "l", "e", "c", "t">>}],
     [bugType |-> "CSRF", patterns |->
        {<<"c", "s", "r", "f">>,
         <<"c", "r", "o", "s", "s", "-", "s", "i", "t", "e", " ", "r", "e", "q", "u", "e", "s", "t", " ", "f", "o", "r", "g", "e", "r", "y">>,
         <<"r", "e", "q", "u", "e", "s", "t", " ", "f", "o", "r", "g", "e", "r", "y">>}],
     [bugType |-> "Authentication Bypass", patterns |->
        {<<"a", "u", "t", "h", " ", "b", "y", "p", "a", "s", "s">>,
         <<"a", "u", "t", "h", "e", "n", "t", "i", "c", "a", "t", "i", "o", "n", " ", "b", "y", "p", "a", "s", "s">>,
         <<"l", "o", "g", "i", "n", " ", "b", "y", "p", "a", "s", "s">>}],
     [bugType |-> "Authorization", patterns |->
        {<<"a", "u", "t", "h", "o", "r", "i", "z", "a", "t", "i", "o", "n">>,
         <<"a", "c", "c", "e", "s", "s", " ", "c", "o", "n", "t", "r", "o", "l">>,
         <<"p", "r", "i", "v", "i", "l", "e", "g", "e", " ", "e", "s", "c", "a", "l", "a", "t", "i", "o", "n">>}],
     [bugType |-> "RCE", patterns |->
        {<<"r", "c", "e">>,
         <<"r", "e", "m", "o", "t", "e", " ", "c", "o", "d", "e", " ", "e", "x", "e", "c", "u", "t", "i", "o", "n">>,
         <<"c", "o", "d", "e", " ", "e", "x", "e", "c", "u", "t", "i", "o", "n">>}],
     [bugType |-> "SSRF", patterns |->
        {<<"s", "s", "r", "f">>,
         <<"s", "e", "r", "v", "e", "r", "-", "s", "i", "d", "e", " ", "r", "e", "q", "u", "e", "s", "t", " ", "f", "o", "r", "g", "e", "r", "y">>}],
     [bugType |-> "Information Disclosure", patterns |->
        {<<"i", "n", "f", "o", "r", "m", "a", "t", "i", "o", "n", " ", "d", "i", "s", "c", "l", "o", "s", "u", "r", "e">>,
         <<"d", "a", "t", "a", " ", "l", "e", "a", "k">>,
         <<"s", "e", "n", "s", "i", "t", "i", "v", "e", " ", "d", "a", "t", "a">>}],
     [bugType |-> "Business Logic", patterns |->
        {<<"b", "u", "s", "i", "n", "e", "s", "s", " ", "l", "o", "g", "i", "c">>,
         <<"l", "o", "g", "i", "c", " ", "f", "l", "a", "w">>,
         <<"w", "o", "r", "k", "f", "l", "o", "w">>}] >>

criticalKeywords ==
  {<<"r", "c", "e">>,
   <<"r", "e", "m", "o", "t", "e", " ", "c", "o", "d", "e", " ", "e", "x", "e", "c", "u", "t", "i", "o", "n">>,
   <<"s", "y", "s", "t", "e", "m", " ", "c", "o", "m", "p", "r", "o", "m", "i", "s", "e">>,
   <<"a", "d", "m", "i", "n", " ", "a", "c", "c", "e", "s", "s">>,
   <<"r", "o", "o", "t", " ", "a", "c", "c", "e", "s", "s">>}

highKeywords ==
  {<<"p", "r", "i", "v", "i", "l", "e", "g", "e", " ", "e", "s", "c", "a", "l", "a", "t", "i", "o", "n">>,
   <<"s", "e", "n", "s", "i", "t", "i", "v", "e", " ", "d", "a", "t", "a">>,
   <<"a", "u", "t", "h", "e", "n", "t", "i", "c", "a", "t", "i", "o", "n", " ", "b", "y", "p", "a", "s", "s">>,
   <<"s", "q", "l", " ", "i", "n", "j", "e", "c", "t", "i", "o", "n">>}

mediumKeywords ==
  {<<"x", "s", "s">>,
   <<"c", "s", "r", "f">>,
   <<"i", "n", "f", "o", "r", "m", "a", "t", "i", "o", "n", " ", "d", "i", "s", "c", "l", "o", "s", "u", "r", "e">>,
   <<"d", "e", "n", "i", "a", "l", " ", "o", "f", " ", "s", "e", "r", "v", "i", "c", "e">>}

\* BugAnalysisAgent.extractBugTypeFromText: the first category, in table
\* order, with a pattern occurring in the lower-cased text
RECURSIVE firstMatch(_, _)
firstMatch(textLower, i) ==
  IF i > Len(bugTypePatterns) THEN "Unknown"
  ELSE IF \E p \in bugTypePatterns[i].patterns : includes(textLower, p)
       THEN bugTypePatterns[i].bugType
       ELSE firstMatch(textLower, i + 1)

extractBugTypeFromText(text) == firstMatch(toLowerCase(text), 1)

\* a scan that tests the tiers from the bottom
assessSeverityMediumFirst(text) ==
  LET textLower == toLowerCase(text) IN
  IF \E k \in mediumKeywords : includes(textLower, k) THEN "MEDIUM"
  ELSE IF \E k \in highKeywords : includes(textLower, k) THEN "HIGH"
  ELSE IF \E k \in criticalKeywords : includes(textLower, k) THEN "CRITICAL"
  ELSE "LOW"

\* BugAnalysisAgent.assessSeverityFromKeywords
assessSeverityFromKeywords(text) ==
  LET textLower == toLowerCase(text) IN
  IF \E k \in criticalKeywords : includes(textLower, k) THEN "CRITICAL"
  ELSE IF \E k \in highKeywords : includes(textLower, k) THEN "HIGH"
  ELSE IF \E k \in mediumKeywords : includes(textLower, k) THEN "MEDIUM"
  ELSE "LOW"

\* ------------------------------------------------------ duplicate detection
\* JSON.stringify / JSON.parse of an embedding column
JSONStringify(v) == [json |-> v]
Parseable(s) == "json" \in DOMAIN s
JSONParse(s) == s.json

RECURSIVE sumProducts(_, _, _)
sumProducts(a, b, i) ==
  IF i > Len(a) THEN 0 ELSE a[i] * b[i] + sumProducts(a, b, i + 1)

Zero == [dot |-> 0, na |-> 1, nb |-> 1]

\* a cosine that checks the lengths but divides by any magnitude
cosineSimilarityDividing(a, b) ==
  IF Len(a) # Len(b) THEN Zero
  ELSE [dot |-> sumProducts(a, b, 1), na |-> sumProducts(a, a, 1),
        nb |-> sumProducts(b, b, 1)]

\* BugAnalysisAgent.cosineSimilarity: 0 on a length mismatch or a zero
\* magnitude, else dotProduct / (magnitudeA * magnitudeB)
cosineSimilarity(a, b) ==
  IF Len(a) # Len(b) THEN Zero
  ELSE LET dotProduct == sumProducts(a, b, 1)
           sqA == sumProducts(a, a, 1)
           sqB == sumProducts(b, b, 1)
       IN IF sqA = 0 \/ sqB = 0 THEN Zero
          ELSE [dot |-> dotProduct, na |-> sqA, nb |-> sqB]

\* s >= pct / 100, for pct >= 0
AtLeast(s, pct) ==
  /\ s.dot >= 0
  /\ s.dot * s.dot * 100 * 100 >= pct * pct * s.na * s.nb

\* s1 < s2
Less(s1, s2) ==
  LET l == s1.dot * s1.dot * s2.na * s2.nb
      r == s2.dot * s2.dot * s1.na * s1.nb
  IN CASE s1.dot >= 0 /\ s2.dot >= 0 -> l < r
       [] s1.dot < 0 /\ s2.dot >= 0 -> TRUE
       [] s1.dot >= 0 /\ s2.dot < 0 -> FALSE
       [] OTHER -> l > r

\* Math.round(s * 100) for s >= 0: the largest p with p - 1/2 <= 100 * s
RoundPercent(s) ==
  CHOOSE p \in 0..100 :
    /\ (2 * p - 1) * (2 * p - 1) * s.na * s.nb <= 200 * s.dot * 200 * s.dot
    /\ \/ p = 100
       \/ (2 * p + 1) * (2 * p + 1) * s.na * s.nb > 200 * s.dot * 200 * s.dot

\* the orders .sort((a, b) => b.similarity - a.similarity) can leave the
\* matches in: findMany has no orderBy, so equal similarities may come out
\* in either order
RECURSIVE sortedDescending(_)
sortedDescending(S) ==
  IF S = {} THEN {<<>>}
  ELSE UNION { { <<m>> \o t : t \in sortedDescending(S \ {m}) } :
               m \in { x \in S : \A y \in S : ~Less(x.similarity, y.similarity) } }

\* a slice that keeps everything
sliceAll(s, n) == s

\* .slice(0, n)
slice(s, n) == IF Len(s) <= n THEN s ELSE SubSeq(s, 1, n)

\* a scan that queries the table whatever the embedding
findManyCallsAlways(embedding) == 1

\* the prisma.report.findMany calls findSimilarReports makes: it returns
\* before the query when the embedding is null
findManyCalls(embedding) == IF IsSome(embedding) THEN 1 ELSE 0

\* a scan that one unparseable stored embedding aborts: the catch around
\* the whole scan answers []
findSimilarReportsAborting(db, embedding, threshold, excludeReportId, queryOk) ==
  IF ~IsSome(embedding) \/ ~queryOk THEN {<<>>}
  ELSE LET found == { id \in DOMAIN db :
                        /\ IsSome(db[id].embedding)
                        /\ IsSome(excludeReportId) => id # Get(excludeReportId) }
           scored == { [id |-> id, title |-> db[id].title,
                        status |-> db[id].status,
                        similarity |-> cosineSimilarity(Get(embedding),
                                          JSONParse(Get(db[id].embedding)))] :
                       id \in { i \in found : Parseable(Get(db[i].embedding)) } }
           kept == { m \in scored : AtLeast(m.similarity, threshold) }
       IN IF \E i \in found : ~Parseable(Get(db[i].embedding))
          THEN {<<>>}
          ELSE { slice(s, MaxSimilar) : s \in sortedDescending(kept) }

\* BugAnalysisAgent.findSimilarReports on the report table db: the results
\* it can return (an empty list when the embedding is null or the query
\* throws)
findSimilarReports(db, embedding, threshold, excludeReportId, queryOk) ==
  IF ~IsSome(embedding) \/ ~queryOk THEN {<<>>}
  ELSE LET found == { id \in DOMAIN db :
                        /\ IsSome(db[id].embedding)
                        /\ IsSome(excludeReportId) => id # Get(excludeReportId) }
           scored == { [id |-> id, title |-> db[id].title,
                        status |-> db[id].status,
                        similarity |-> cosineSimilarity(Get(embedding),
                                          JSONParse(Get(db[id].embedding)))] :
                       id \in { i \in found : Parseable(Get(db[i].embedding)) } }
           kept == { m \in scored : AtLeast(m.similarity, threshold) }
       IN { slice(s, MaxSimilar) : s \in sortedDescending(kept) }

\* -------------------------------------------------------------- assignment
\* EngineerAssignmentService.bugTypeToTeamMapping
bugTypeToTeamMapping ==
  [b \in {"XSS", "DOM-based XSS", "Client-side Injection", "CORS",
          "Content Security Policy", "SQL Injection", "API Security",
          "Input Validation", "Business Logic", "Command Injection",
          "Path Traversal", "Authentication Bypass", "Authorization", "CSRF",
          "Session Management", "Cryptography", "Information Disclosure",
          "Network Security", "Denial of Service", "Configuration",
          "Server-Side Request Forgery", "Remote Code Execution"} |->
     CASE b \in {"XSS", "DOM-based XSS", "Client-side Injection", "CORS",
                 "Content Security Policy"} -> "frontend"
       [] b \in {"SQL Injection", "API Security", "Input Validation",
                 "Business Logic", "Command Injection", "Path Traversal"}
            -> "backend"
       [] b \in {"Authentication Bypass", "Authorization", "CSRF",
                 "Session Management", "Cryptography",
                 "Information Disclosure"} -> "security"
       [] OTHER -> "infrastructure"]

\* bugTypeToTeamMapping[bugType], undefined (None) for an unlisted key
lookupTeam(bugType) ==
  IF bugType \in DOMAIN bugTypeToTeamMapping
  THEN Some(bugTypeToTeamMapping[bugType]) ELSE None

\* assignEngineer: bugTypeToTeamMapping[analysis.bugType] || 'security'
suggestedTeamOf(bugType) ==
  IF IsSome(lookupTeam(bugType)) THEN Get(lookupTeam(bugType)) ELSE "security"

\* the engineer query without its role filter
findAvailableUsers(userTable, db, team) ==
  { [id |-> u.id, name |-> u.name, team |-> u.team,
     activeReports |->
       Cardinality({ r \in DOMAIN db :
          /\ db[r].assignedEngineerId = Some(u.id)
          /\ db[r].status \in {"NEW", "IN_PROGRESS"} }),
     criticalReports |->
       Cardinality({ r \in DOMAIN db :
          /\ db[r].assignedEngineerId = Some(u.id)
          /\ db[r].status \in {"NEW", "IN_PROGRESS"}
          /\ db[r].severity = Some("CRITICAL") })] :
    u \in { x \in userTable : IsSome(team) => x.team = team } }

\* EngineerAssignmentService.findAvailableEngineers: the ENGINEER-role users
\* (of the team, when one is given) with their workload
findAvailableEngineers(userTable, db, team) ==
  { [id |-> u.id, name |-> u.name, team |-> u.team,
     activeReports |->
       Cardinality({ r \in DOMAIN db :
          /\ db[r].assignedEngineerId = Some(u.id)
          /\ db[r].status \in {"NEW", "IN_PROGRESS"} }),
     criticalReports |->
       Cardinality({ r \in DOMAIN db :
          /\ db[r].assignedEngineerId = Some(u.id)
          /\ db[r].status \in {"NEW", "IN_PROGRESS"}
          /\ db[r].severity = Some("CRITICAL") })] :
    u \in { x \in userTable :
              x.role = "ENGINEER" /\ (IsSome(team) => x.team = team) } }

\* a score that grows with the workload
scoreRewardingLoad(engineer, analysis) ==
  BaseScore
  + engineer.activeReports * ActivePenalty
  - engineer.criticalReports * CriticalPenalty
  + (IF IsSome(engineer.team) /\ engineer.team = lookupTeam(analysis.bugType)
     THEN TeamBonus ELSE 0)
  - (IF analysis.severity = "CRITICAL"
     THEN engineer.criticalReports * CriticalSeverityPenalty ELSE 0)

\* the score selectBestEngineer gives one candidate
scoreOf(engineer, analysis) ==
  BaseScore
  - engineer.activeReports * ActivePenalty
  - engineer.criticalReports * CriticalPenalty
  + (IF IsSome(engineer.team) /\ engineer.team = lookupTeam(analysis.bugType)
     THEN TeamBonus ELSE 0)
  - (IF analysis.severity = "CRITICAL"
     THEN engineer.criticalReports * CriticalSeverityPenalty ELSE 0)

\* a selection that takes any candidate
selectAnyEngineer(engineers, analysis) == engineers

\* EngineerAssignmentService.selectBestEngineer: the candidates the
\* descending sort can put first
selectBestEngineer(engineers, analysis) ==
  { e \in engineers :
      \A o \in engineers : scoreOf(o, analysis) <= scoreOf(e, analysis) }

\* ------------------------------------------------------------------ inputs
\* request bodies POST /api/reports/submit is called with
XssReport ==
  [title |-> <<"R", "e", "f", "l", "e", "c", "t", "e", "d", " ", "X", "S", "S", " ", "i", "n", " ", "s", "e", "a", "r", "c", "h">>,
   description |-> <<"T", "h", "e", " ", "s", "e", "a", "r", "c", "h", " ", "b", "o", "x", " ", "e", "c", "h", "o", "e", "s", " ", "t", "h", "e", " ", "q", "u", "e", "r", "y", " ", "b", "a", "c", "k", ",", " ", "a", "l", "l", "o", "w", "i", "n", "g", " ", "s", "c", "r", "i", "p", "t", " ", "i", "n", "j", "e", "c", "t", "i", "o", "n", " ", "b", "y", " ", "a", "n", "y", " ", "v", "i", "s", "i", "t", "o", "r", ".">>,
   affectedSystem |-> "Search",
   severity |-> Some("LOW")]

SqliReport ==
  [title |-> <<"S", "Q", "L", " ", "I", "n", "j", "e", "c", "t", "i", "o", "n", " ", "i", "n", " ", "L", "o", "g", "i", "n">>,
   description |-> <<"L", "o", "g", "i", "n", " ", "f", "o", "r", "m", " ", "v", "u", "l", "n", "e", "r", "a", "b", "l", "e", " ", "t", "o", " ", "S", "Q", "L", " ", "i", "n", "j", "e", "c", "t", "i", "o", "n", " ", "a", "t", "t", "a", "c", "k", "s", " ", "v", "i", "a", " ", "t", "h", "e", " ", "u", "s", "e", "r", " ", "n", "a", "m", "e", " ", "f", "i", "e", "l", "d", ".">>,
   affectedSystem |-> "Authentication System",
   severity |-> None]

ShortReport ==
  [title |-> <<"X", "S", "S", " ", "b", "u", "g">>,
   description |-> <<"T", "o", "o", " ", "s", "h", "o", "r", "t", " ", "t", "o", " ", "b", "e", " ", "a", "c", "c", "e", "p", "t", "e", "d", ".">>,
   affectedSystem |-> "Search",
   severity |-> None]

SubmissionInputs == {XssReport, ShortReport}

\* objects the hosted model returns when generateObject succeeds
ModelObjects ==
  { [bugType |-> "SQL Injection", severity |-> "HIGH", affectedSystem |-> "Search",
     confidence |-> 90, summary |-> <<"model">>, suggestedAssignment |-> "backend"] }

\* outcomes of the generateObject call
ModelOutcomes ==
  { [ok |-> TRUE, object |-> o] : o \in ModelObjects }
  \cup { [ok |-> FALSE, error |-> e] : e \in {"transport", "parse", "schema"} }

\* vectors the embedding endpoint returns
EmbeddingVectors == { <<1, 0>>, <<9, 4>>, <<0, 1>> }

\* outcomes of the fetch to the embedding endpoint
EmbeddingResponses ==
  { [kind |-> "ok", embedding |-> v] : v \in EmbeddingVectors }
  \cup { [kind |-> k] : k \in {"transport", "status", "malformed"} }

\* rows the user table can hold: the seeded system actor and two engineers
SystemUser == [id |-> "system", name |-> Some("System"), role |-> "ADMIN", team |-> None]
Engineers ==
  { [id |-> "e1", name |-> Some("Alice"), role |-> "ENGINEER", team |-> Some("frontend")],
    [id |-> "e2", name |-> None, role |-> "ENGINEER", team |-> Some("security")] }
UserTables == { {}, {SystemUser}, {SystemUser} \cup Engineers }

\* a report triaged before the first state: classified by the keyword
\* fallback, embedded, and left unassigned in status NEW
EarlierReport ==
  [title |-> XssReport.title, description |-> XssReport.description,
   affectedSystem |-> XssReport.affectedSystem, severity |-> Some("MEDIUM"),
   status |-> "NEW", bugType |-> Some("XSS"),
   aiAnalysis |-> Some([bugType |-> "XSS", severity |-> "MEDIUM",
                        confidence |-> FallbackConfidence,
                        summary |-> <<"AI analysis failed, manual review required for: ",
                                      XssReport.title>>,
                        duplicatesFound |-> 0]),
   embedding |-> Some(JSONStringify(<<1, 0>>)), duplicateOfId |-> None,
   assignedEngineerId |-> None]

\* a report id no submission creates
UnknownId == MaxReports + 1

\* --------------------------------------------------------------- the state
VARIABLES
  users,        \* user table
  reports,      \* report table: reports[id] is the row of report id
  assignments,  \* assignment table, in insertion order
  comments,     \* report comment table, in insertion order
  events,       \* engineer.assigned events sent
  queue,        \* report.submitted events sent and not yet picked up
  runs,         \* processReport invocations: runs[<<id, n>>] is the n-th for report id
  response,     \* the last response of POST /api/reports/submit
  call,         \* the last call made to a service directly, with its result
  cleanup       \* the cleanupOldReports job: its step and the rows it has listed

vars == <<users, reports, assignments, comments, events, queue, runs, response, call,
         cleanup>>

Init ==
  /\ users \in UserTables
  /\ reports = <<EarlierReport>>
  /\ assignments = <<>>
  /\ comments = <<>>
  /\ events = <<>>
  /\ queue = {}
  /\ runs = <<>>
  /\ response = None
  /\ call = None
  /\ cleanup = None

\* ---------------------------------------------------------- report intake
\* BugReportSchema.safeParse(body).success
validSubmission(body) ==
  /\ Len(body.title) >= TitleMin /\ Len(body.title) <= TitleMax
  /\ Len(body.description) >= DescriptionMin
  /\ Len(body.description) <= DescriptionMax
  /\ body.affectedSystem # ""

\* a submission whose request fails when the event cannot be sent
SubmitFailingOnSend(body, createOk, sendOk) ==
  /\ Len(reports) < MaxReports
  /\ UNCHANGED <<cleanup, call, users, assignments, comments, events, runs>>
  /\ IF ~validSubmission(body)
     THEN /\ response' = Some([status |-> 400, success |-> FALSE, reportId |-> None])
          /\ UNCHANGED <<reports, queue>>
     ELSE IF ~createOk
     THEN /\ response' = Some([status |-> 500, success |-> FALSE, reportId |-> None])
          /\ UNCHANGED <<reports, queue>>
     ELSE LET id == Len(reports) + 1 IN
          /\ reports' = Append(reports,
               [title |-> body.title, description |-> body.description,
                affectedSystem |-> body.affectedSystem, severity |-> body.severity,
                status |-> "NEW", bugType |-> None, aiAnalysis |-> None,
                embedding |-> None, duplicateOfId |-> None,
                assignedEngineerId |-> None])
          /\ queue' = IF sendOk THEN queue \cup {id} ELSE queue
          /\ response' =
               IF sendOk
               THEN Some([status |-> 201, success |-> TRUE, reportId |-> Some(id)])
               ELSE Some([status |-> 500, success |-> FALSE, reportId |-> None])

\* a submission that classifies the report itself
SubmitClassifying(body, createOk, sendOk) ==
  /\ Len(reports) < MaxReports
  /\ UNCHANGED <<cleanup, call, users, assignments, comments, events, runs>>
  /\ IF ~validSubmission(body)
     THEN /\ response' = Some([status |-> 400, success |-> FALSE, reportId |-> None])
          /\ UNCHANGED <<reports, queue>>
     ELSE IF ~createOk
     THEN /\ response' = Some([status |-> 500, success |-> FALSE, reportId |-> None])
          /\ UNCHANGED <<reports, queue>>
     ELSE LET id == Len(reports) + 1 IN
          /\ reports' = Append(reports,
               [title |-> body.title, description |-> body.description,
                affectedSystem |-> body.affectedSystem, severity |-> body.severity,
                status |-> "NEW",
                bugType |-> Some(extractBugTypeFromText(body.title)),
                aiAnalysis |-> None,
                embedding |-> None, duplicateOfId |-> None,
                assignedEngineerId |-> None])
          /\ queue' = IF sendOk THEN queue \cup {id} ELSE queue
          /\ response' = Some([status |-> 201, success |-> TRUE, reportId |-> Some(id)])

\* POST /api/reports/submit
Submit(body, createOk, sendOk) ==
  /\ Len(reports) < MaxReports
  /\ UNCHANGED <<cleanup, call, users, assignments, comments, events, runs>>
  /\ IF ~validSubmission(body)
     THEN /\ response' = Some([status |-> 400, success |-> FALSE, reportId |-> None])
          /\ UNCHANGED <<reports, queue>>
     ELSE IF ~createOk
     THEN /\ response' = Some([status |-> 500, success |-> FALSE, reportId |-> None])
          /\ UNCHANGED <<reports, queue>>
     ELSE LET id == Len(reports) + 1 IN
          /\ reports' = Append(reports,
               [title |-> body.title, description |-> body.description,
                affectedSystem |-> body.affectedSystem, severity |-> body.severity,
                status |-> "NEW", bugType |-> None, aiAnalysis |-> None,
                embedding |-> None, duplicateOfId |-> None,
                assignedEngineerId |-> None])
          /\ queue' = IF sendOk THEN queue \cup {id} ELSE queue
          /\ response' = Some([status |-> 201, success |-> TRUE, reportId |-> Some(id)])

\* a processReport invocation at its first step
started(id) ==
  [pc |-> "fetch-report", reportId |-> id, report |-> None,
   analysis |-> None, modelFailed |-> FALSE, embedding |-> None,
   embeddingFailed |-> FALSE, duplicates |-> <<>>, selected |-> None,
   engineerQueries |-> 0,
   assignmentResult |-> None, sendFailed |-> FALSE, commentFailed |-> FALSE,
   steps |-> <<>>, summary |-> None, error |-> None]

\* the invocations started so far for report id
invocationsOf(id) == { k \in DOMAIN runs : k[1] = id }

\* ------------------------------------------------------------ processReport
\* the event layer starts one processReport invocation for a pending event
StartRun(id) ==
  /\ id \in queue
  /\ queue' = queue \ {id}
  /\ runs' = runs @@ (<<id, Cardinality(invocationsOf(id)) + 1>> :> started(id))
  /\ UNCHANGED <<cleanup, call, users, reports, assignments, comments, events, response>>

\* a report.submitted event whose reportId names no report arrives and
\* starts an invocation
ExternalEvent ==
  /\ invocationsOf(UnknownId) = {}
  /\ runs' = runs @@ (<<UnknownId, 1>> :> started(UnknownId))
  /\ UNCHANGED <<cleanup, call, users, reports, assignments, comments, events, queue, response>>

\* fetch-report returning quietly, instead of throwing, when no row is found
FetchReportReturns(r, queryOk) ==
  /\ runs[r].pc = "fetch-report"
  /\ runs' = [runs EXCEPT ![r] =
       IF queryOk /\ runs[r].reportId \in DOMAIN reports
       THEN [@ EXCEPT !.report = Some(reports[runs[r].reportId]),
                      !.steps = Append(@, "fetch-report"),
                      !.pc = "ai-analysis"]
       ELSE [@ EXCEPT !.pc = "done"]]
  /\ UNCHANGED <<cleanup, call, users, reports, assignments, comments, events, queue, response>>

\* Step 1: fetch-report
FetchReport(r, queryOk) ==
  /\ runs[r].pc = "fetch-report"
  /\ runs' = [runs EXCEPT ![r] =
       IF queryOk /\ runs[r].reportId \in DOMAIN reports
       THEN [@ EXCEPT !.report = Some(reports[runs[r].reportId]),
                      !.steps = Append(@, "fetch-report"),
                      !.pc = "ai-analysis"]
       ELSE [@ EXCEPT !.pc = "failed",
                      !.error = IF queryOk THEN Some("Report not found")
                                ELSE Some("findUnique failed")]]
  /\ UNCHANGED <<cleanup, call, users, reports, assignments, comments, events, queue, response>>

\* the two keyword scans, tabulated once for the texts of the submissions
keywordScan ==
  [text \in { b.title \o Space \o b.description : b \in SubmissionInputs } |->
     [bugType |-> extractBugTypeFromText(text),
      severity |-> assessSeverityFromKeywords(text)]]

\* the catch block of the ai-analysis step; analyzeReport catches every
\* failure of the model call itself, so nothing reaches this block
orchestratorFallbackResult(report) ==
  [bugType |-> "Unknown",
   severity |-> "MEDIUM",
   affectedSystem |-> IF report.affectedSystem # "" THEN report.affectedSystem ELSE "Unknown",
   confidence |-> OrchestratorFallbackConfidence,
   summary |-> <<"AI analysis failed, manual review required">>,
   suggestedAssignment |-> "security"]

\* the agent's catch block answering with the values of the step's
fallbackResultOfStep(report) == orchestratorFallbackResult(report)

\* the catch block of BugAnalysisAgent.analyzeReport
fallbackResult(report) ==
  [bugType |-> keywordScan[report.title \o Space \o report.description].bugType,
   severity |-> keywordScan[report.title \o Space \o report.description].severity,
   affectedSystem |-> IF report.affectedSystem # "" THEN report.affectedSystem ELSE "Unknown",
   confidence |-> FallbackConfidence,
   summary |-> <<"AI analysis failed, manual review required for: ", report.title>>,
   suggestedAssignment |-> "security"]

\* BugAnalysisAgent.analyzeReport
analyzeReport(report, outcome) ==
  IF outcome.ok THEN outcome.object ELSE fallbackResult(report)

\* Step 2: ai-analysis
AiAnalysis(r, outcome) ==
  /\ runs[r].pc = "ai-analysis"
  /\ runs' = [runs EXCEPT ![r] =
       [@ EXCEPT !.analysis = Some(analyzeReport(Get(runs[r].report), outcome)),
                 !.modelFailed = ~outcome.ok,
                 !.steps = Append(@, "ai-analysis"),
                 !.pc = "generate-embedding"]]
  /\ UNCHANGED <<cleanup, call, users, reports, assignments, comments, events, queue, response>>

\* an embedding call that answers a failure with a zero vector
generateEmbeddingZeroVector(resp) ==
  IF resp.kind = "ok" THEN Some(resp.embedding) ELSE Some(<<0, 0>>)

\* BugAnalysisAgent.generateEmbedding: null unless the endpoint answered
\* with a vector
generateEmbedding(resp) ==
  IF resp.kind = "ok" THEN Some(resp.embedding) ELSE None

\* a generate-embedding step that stores the vector in the report row at once
GenerateEmbeddingStoring(r, resp) ==
  /\ runs[r].pc = "generate-embedding"
  /\ runs' = [runs EXCEPT ![r] =
       [@ EXCEPT !.embedding = generateEmbedding(resp),
                 !.embeddingFailed = (resp.kind # "ok"),
                 !.steps = Append(@, "generate-embedding"),
                 !.pc = "check-duplicates"]]
  /\ reports' = IF IsSome(generateEmbedding(resp))
                THEN [reports EXCEPT ![runs[r].reportId] =
                        [@ EXCEPT !.embedding =
                           Some(JSONStringify(Get(generateEmbedding(resp))))]]
                ELSE reports
  /\ UNCHANGED <<cleanup, call, users, assignments, comments, events, queue, response>>

\* Step 3: generate-embedding
GenerateEmbedding(r, resp) ==
  /\ runs[r].pc = "generate-embedding"
  /\ runs' = [runs EXCEPT ![r] =
       [@ EXCEPT !.embedding = generateEmbedding(resp),
                 !.embeddingFailed = (resp.kind # "ok"),
                 !.steps = Append(@, "generate-embedding"),
                 !.pc = "check-duplicates"]]
  /\ UNCHANGED <<cleanup, call, users, reports, assignments, comments, events, queue, response>>

\* Step 4: check-duplicates
CheckDuplicates(r, queryOk) ==
  /\ runs[r].pc = "check-duplicates"
  /\ \E similarReports \in
        findSimilarReports(reports, runs[r].embedding, DuplicateThreshold,
                           Some(runs[r].reportId), queryOk) :
       runs' = [runs EXCEPT ![r] =
         [@ EXCEPT !.duplicates = similarReports,
                   !.steps = Append(@, "check-duplicates"),
                   !.pc = "update-report-analysis"]]
  /\ UNCHANGED <<cleanup, call, users, reports, assignments, comments, events, queue, response>>

\* the write with duplicateOfId taken from the last match instead of the first
updateDataLastMatch(row, analysis, embedding, duplicates) ==
  LET classified ==
        [row EXCEPT !.bugType = Some(analysis.bugType),
                    !.severity = Some(analysis.severity),
                    !.aiAnalysis = Some([bugType |-> analysis.bugType,
                                         severity |-> analysis.severity,
                                         confidence |-> analysis.confidence,
                                         summary |-> analysis.summary,
                                         duplicatesFound |-> Len(duplicates)])]
      embedded ==
        IF IsSome(embedding)
        THEN [classified EXCEPT !.embedding = Some([json |-> Get(embedding)])]
        ELSE classified
  IN IF Len(duplicates) > 0
     THEN [embedded EXCEPT !.status = "DUPLICATE",
                           !.duplicateOfId = Some(duplicates[Len(duplicates)].id)]
     ELSE embedded

\* the data of the update-report-analysis write
updateData(row, analysis, embedding, duplicates) ==
  LET classified ==
        [row EXCEPT !.bugType = Some(analysis.bugType),
                    !.severity = Some(analysis.severity),
                    !.aiAnalysis = Some([bugType |-> analysis.bugType,
                                         severity |-> analysis.severity,
                                         confidence |-> analysis.confidence,
                                         summary |-> analysis.summary,
                                         duplicatesFound |-> Len(duplicates)])]
      embedded ==
        IF IsSome(embedding)
        THEN [classified EXCEPT !.embedding = Some(JSONStringify(Get(embedding)))]
        ELSE classified
  IN IF Len(duplicates) > 0
     THEN [embedded EXCEPT !.status = "DUPLICATE",
                           !.duplicateOfId = Some(duplicates[1].id)]
     ELSE embedded

\* the processing summary processReport returns
summaryOf(run, result) ==
  [success |-> TRUE,
   reportId |-> run.reportId,
   bugType |-> Get(run.analysis).bugType,
   severity |-> Get(run.analysis).severity,
   confidence |-> Get(run.analysis).confidence,
   duplicatesFound |-> Len(run.duplicates),
   assigned |-> IsSome(result) /\ Get(result).success,
   assignedTo |-> IF IsSome(result) THEN Get(result).engineerName ELSE None]

\* the invocation returns its summary
returned(run, step, result) ==
  [run EXCEPT !.pc = "done", !.steps = Append(@, step),
              !.assignmentResult = result,
              !.summary = Some(summaryOf(run, result))]

\* the branch taken without looking at duplicates.length
branchAlwaysAssign(duplicates) == "assign-engineer"

\* if (duplicates.length === 0) ... else ...
branchAfterUpdate(duplicates) ==
  IF Len(duplicates) = 0 THEN "assign-engineer" ELSE "handle-duplicate"

\* Step 5: update-report-analysis, then the branch on duplicates.length
UpdateReportAnalysis(r, writeOk) ==
  /\ runs[r].pc = "update-report-analysis"
  /\ IF writeOk
     THEN /\ reports' = [reports EXCEPT ![runs[r].reportId] =
                 updateData(@, Get(runs[r].analysis), runs[r].embedding,
                            runs[r].duplicates)]
          /\ runs' = [runs EXCEPT ![r] =
               [@ EXCEPT !.steps = Append(@, "update-report-analysis"),
                         !.pc = branchAfterUpdate(runs[r].duplicates)]]
     ELSE /\ runs' = [runs EXCEPT ![r] =
               [@ EXCEPT !.pc = "failed", !.error = Some("update failed")]]
          /\ UNCHANGED reports
  /\ UNCHANGED <<cleanup, call, users, assignments, comments, events, queue, response>>

\* the failure results of assignEngineer
noEngineers ==
  [success |-> FALSE, assignedEngineerId |-> None, engineerName |-> None,
   error |-> "No available engineers found"]
assignFailed ==
  [success |-> FALSE, assignedEngineerId |-> None, engineerName |-> None,
   error |-> "Failed to assign engineer"]

\* the candidates without the fallback to the whole pool
candidatesOfTeamOnly(userTable, db, bugType) ==
  findAvailableEngineers(userTable, db, Some(suggestedTeamOf(bugType)))

\* the queries of an assignEngineer that asks for the whole pool every time
engineerQueriesWithPool(userTable, db, bugType) == 2

\* the number of findAvailableEngineers queries assignEngineer makes: the
\* suggested team's, and the whole pool's when that team has none
engineerQueriesOf(userTable, db, bugType) ==
  IF findAvailableEngineers(userTable, db, Some(suggestedTeamOf(bugType))) = {}
  THEN 2 ELSE 1

\* the candidates assignEngineer scores: the suggested team, or every
\* engineer when that team has none
candidatesFor(userTable, db, bugType) ==
  LET availableEngineers ==
        findAvailableEngineers(userTable, db, Some(suggestedTeamOf(bugType)))
  IN IF availableEngineers = {}
     THEN findAvailableEngineers(userTable, db, None)
     ELSE availableEngineers

\* if (assignmentResult?.success && assignmentResult.assignedEngineerId)
notifies(result) == result.success /\ IsSome(result.assignedEngineerId)

\* Step 6, assignEngineer up to selectBestEngineer
AssignSelect(r, queryOk) ==
  /\ runs[r].pc = "assign-engineer"
  /\ LET candidates == candidatesFor(users, reports, Get(runs[r].analysis).bugType)
         queries == engineerQueriesOf(users, reports, Get(runs[r].analysis).bugType)
     IN
     IF ~queryOk
     THEN \E failing \in 1..queries :
            runs' = [runs EXCEPT ![r] =
              returned([runs[r] EXCEPT !.engineerQueries = failing],
                       "assign-engineer", Some(assignFailed))]
     ELSE IF candidates = {}
     THEN runs' = [runs EXCEPT ![r] =
            returned([runs[r] EXCEPT !.engineerQueries = queries],
                     "assign-engineer", Some(noEngineers))]
     ELSE \E selectedEngineer \in selectBestEngineer(candidates, Get(runs[r].analysis)) :
            runs' = [runs EXCEPT ![r] =
              [@ EXCEPT !.selected = Some(selectedEngineer),
                        !.engineerQueries = queries,
                        !.pc = "assignment.create"]]
  /\ UNCHANGED <<cleanup, call, users, reports, assignments, comments, events, queue, response>>

\* Step 6, assignEngineer: prisma.assignment.create
AssignCreate(r, writeOk) ==
  /\ runs[r].pc = "assignment.create"
  /\ IF writeOk
     THEN /\ assignments' = Append(assignments,
               [reportId |-> runs[r].reportId,
                engineerId |-> Get(runs[r].selected).id,
                assignedBy |-> "system", status |-> "ACTIVE"])
          /\ runs' = [runs EXCEPT ![r] = [@ EXCEPT !.pc = "report.update"]]
     ELSE /\ runs' = [runs EXCEPT ![r] = returned(@, "assign-engineer", Some(assignFailed))]
          /\ UNCHANGED assignments
  /\ UNCHANGED <<cleanup, call, users, reports, comments, events, queue, response>>

\* the success result of assignEngineer
assigned(selectedEngineer) ==
  [success |-> TRUE, assignedEngineerId |-> Some(selectedEngineer.id),
   engineerName |-> IF IsSome(selectedEngineer.name)
                    THEN selectedEngineer.name ELSE Some("Unknown"),
   error |-> ""]

\* Step 6, assignEngineer: prisma.report.update, and the test for Step 7
AssignUpdate(r, writeOk) ==
  /\ runs[r].pc = "report.update"
  /\ IF writeOk
     THEN /\ reports' = [reports EXCEPT ![runs[r].reportId] =
               [@ EXCEPT !.assignedEngineerId = Some(Get(runs[r].selected).id),
                         !.status = "IN_PROGRESS"]]
          /\ runs' = [runs EXCEPT ![r] =
               LET result == assigned(Get(runs[r].selected)) IN
               IF notifies(result)
               THEN [@ EXCEPT !.assignmentResult = Some(result),
                              !.steps = Append(@, "assign-engineer"),
                              !.pc = "send-notification"]
               ELSE returned(@, "assign-engineer", Some(result))]
     ELSE /\ runs' = [runs EXCEPT ![r] = returned(@, "assign-engineer", Some(assignFailed))]
          /\ UNCHANGED reports
  /\ UNCHANGED <<cleanup, call, users, assignments, comments, events, queue, response>>

\* send-notification letting a failed send end the invocation in failure
SendNotificationThrows(r, sendOk) ==
  /\ runs[r].pc = "send-notification"
  /\ events' =
       IF sendOk
       THEN Append(events,
              [name |-> "engineer.assigned",
               reportId |-> runs[r].reportId,
               engineerId |-> Get(Get(runs[r].assignmentResult).assignedEngineerId),
               bugType |-> Get(runs[r].analysis).bugType,
               severity |-> Get(runs[r].analysis).severity,
               title |-> Get(runs[r].report).title])
       ELSE events
  /\ runs' = [runs EXCEPT ![r] =
       IF sendOk
       THEN returned(@, "send-notification", runs[r].assignmentResult)
       ELSE [@ EXCEPT !.sendFailed = TRUE, !.pc = "failed",
                      !.error = Some("send failed")]]
  /\ UNCHANGED <<cleanup, call, users, reports, assignments, comments, queue, response>>

\* Step 7: send-notification
SendNotification(r, sendOk) ==
  /\ runs[r].pc = "send-notification"
  /\ events' =
       IF sendOk
       THEN Append(events,
              [name |-> "engineer.assigned",
               reportId |-> runs[r].reportId,
               engineerId |-> Get(Get(runs[r].assignmentResult).assignedEngineerId),
               bugType |-> Get(runs[r].analysis).bugType,
               severity |-> Get(runs[r].analysis).severity,
               title |-> Get(runs[r].report).title])
       ELSE events
  /\ runs' = [runs EXCEPT ![r] =
       returned([@ EXCEPT !.sendFailed = ~sendOk], "send-notification",
                runs[r].assignmentResult)]
  /\ UNCHANGED <<cleanup, call, users, reports, assignments, comments, queue, response>>

\* the comment handle-duplicate writes
duplicateComment(reportId, match) ==
  [reportId |-> reportId, userId |-> "system",
   duplicateOf |-> match.id, title |-> match.title,
   percent |-> RoundPercent(match.similarity)]

\* a lookup that takes the system user for granted
systemUserAssumed(userTable) == TRUE

\* prisma.user.findUnique({ where: { id: 'system' } }) finds a row
systemUserExists(userTable) == \E u \in userTable : u.id = "system"

\* Step 6b: handle-duplicate
HandleDuplicate(r, writeOk) ==
  /\ runs[r].pc = "handle-duplicate"
  /\ comments' =
       IF systemUserExists(users) /\ writeOk
       THEN Append(comments, duplicateComment(runs[r].reportId, runs[r].duplicates[1]))
       ELSE comments
  /\ runs' = [runs EXCEPT ![r] =
       returned([@ EXCEPT !.commentFailed = systemUserExists(users) /\ ~writeOk],
                "handle-duplicate", None)]
  /\ UNCHANGED <<cleanup, call, users, reports, assignments, events, queue, response>>

\* --------------------------------------------------------- specifications
Next ==
  \/ \E body \in SubmissionInputs, createOk \in BOOLEAN, sendOk \in BOOLEAN :
       Submit(body, createOk, sendOk)
  \/ ExternalEvent
  \/ \E id \in queue : StartRun(id)
  \/ \E r \in DOMAIN runs, queryOk \in BOOLEAN : FetchReport(r, queryOk)
  \/ \E r \in DOMAIN runs, outcome \in ModelOutcomes : AiAnalysis(r, outcome)
  \/ \E r \in DOMAIN runs, resp \in EmbeddingResponses : GenerateEmbedding(r, resp)
  \/ \E r \in DOMAIN runs, queryOk \in BOOLEAN : CheckDuplicates(r, queryOk)
  \/ \E r \in DOMAIN runs, writeOk \in BOOLEAN : UpdateReportAnalysis(r, writeOk)
  \/ \E r \in DOMAIN runs, queryOk \in BOOLEAN : AssignSelect(r, queryOk)
  \/ \E r \in DOMAIN runs, writeOk \in BOOLEAN : AssignCreate(r, writeOk)
  \/ \E r \in DOMAIN runs, writeOk \in BOOLEAN : AssignUpdate(r, writeOk)
  \/ \E r \in DOMAIN runs, sendOk \in BOOLEAN : SendNotification(r, sendOk)
  \/ \E r \in DOMAIN runs, writeOk \in BOOLEAN : HandleDuplicate(r, writeOk)

Spec == Init /\ [][Next]_vars

\* no event is pending and no invocation is under way
Idle == queue = {} /\ \A k \in DOMAIN runs : runs[k].pc \in {"done", "failed"}

\* the invocations that were started by a second event for their report
redelivered == { k \in DOMAIN runs : k[2] > 1 }

\* the latest report.submitted event is delivered a second time after its
\* invocation has ended: the function is invoked again for the same id (the
\* ended invocation's record is dropped, the new one takes the next
\* delivery number)
Redeliver(k) ==
  /\ k[1] = Len(reports)
  /\ k[2] = 1
  /\ Cardinality(redelivered) < MaxRedeliveries
  /\ runs[k].pc \in {"done", "failed"}
  /\ runs' = [j \in (DOMAIN runs \ {k}) \cup {<<k[1], k[2] + 1>>} |->
                IF j = <<k[1], k[2] + 1>> THEN started(k[1]) ELSE runs[j]]
  /\ UNCHANGED <<cleanup, call, users, reports, assignments, comments, events, queue, response>>

\* events are handled one at a time, and a delivered event may be delivered
\* once more after the submissions
NextRerun ==
  \/ /\ Idle /\ redelivered = {}
     /\ \E body \in SubmissionInputs, createOk \in BOOLEAN, sendOk \in BOOLEAN :
          Submit(body, createOk, sendOk)
  \/ \E id \in queue : StartRun(id)
  \/ Idle /\ \E k \in DOMAIN runs : Redeliver(k)
  \/ \E r \in DOMAIN runs, queryOk \in BOOLEAN : FetchReport(r, queryOk)
  \/ \E r \in DOMAIN runs, outcome \in ModelOutcomes : AiAnalysis(r, outcome)
  \/ \E r \in DOMAIN runs, resp \in EmbeddingResponses : GenerateEmbedding(r, resp)
  \/ \E r \in DOMAIN runs, queryOk \in BOOLEAN : CheckDuplicates(r, queryOk)
  \/ \E r \in DOMAIN runs, writeOk \in BOOLEAN : UpdateReportAnalysis(r, writeOk)
  \/ \E r \in DOMAIN runs, queryOk \in BOOLEAN : AssignSelect(r, queryOk)
  \/ \E r \in DOMAIN runs, writeOk \in BOOLEAN : AssignCreate(r, writeOk)
  \/ \E r \in DOMAIN runs, writeOk \in BOOLEAN : AssignUpdate(r, writeOk)
  \/ \E r \in DOMAIN runs, sendOk \in BOOLEAN : SendNotification(r, sendOk)
  \/ \E r \in DOMAIN runs, writeOk \in BOOLEAN : HandleDuplicate(r, writeOk)

SpecRerun == Init /\ [][NextRerun]_vars

\* ------------------------------------------------- services called directly
\* an embedding column that JSON.parse rejects
Corrupt == [text |-> "not json"]

\* the embedding column of row i of a stored table: distinct vectors, equal
\* vectors in pairs, every third one null, some unparseable, or one of zero
\* magnitude and one of another length
Layouts == {"distinct", "paired", "sparse", "corrupt", "degenerate"}
storedColumn(layout, i) ==
  CASE layout = "distinct" -> Some(JSONStringify(<<i, 1>>))
    [] layout = "paired" -> Some(JSONStringify(<<(i + 1) \div 2, 1>>))
    [] layout = "sparse" ->
         IF i % 3 = 0 THEN None ELSE Some(JSONStringify(<<i, 1>>))
    [] layout = "corrupt" ->
         IF i % 4 = 2 THEN Some(Corrupt) ELSE Some(JSONStringify(<<i, 1>>))
    [] OTHER ->
         CASE i = 3 -> Some(JSONStringify(<<0, 0>>))
           [] i = 4 -> Some(JSONStringify(<<i, 1, 0>>))
           [] OTHER -> Some(JSONStringify(<<i, 1>>))

\* the report tables findSimilarReports is called on
StoredTables ==
  { [i \in 1..n |-> [EarlierReport EXCEPT !.embedding = storedColumn(layout, i)]] :
      n \in 0..MaxStored, layout \in Layouts }

\* the arguments findSimilarReports is called with
QueryEmbeddings == {None, Some(<<1, 0>>), Some(<<0, 1>>), Some(<<0, 0>>)}
Thresholds == {0, 50, DuplicateThreshold}
ExcludedIds == {None, Some(1), Some(MaxStored)}
FindSimilarArguments ==
  { a \in [embedding : QueryEmbeddings, threshold : Thresholds,
           excludeReportId : ExcludedIds, queryOk : BOOLEAN] :
      a.embedding = Some(<<0, 0>>) => a.threshold > 0 }

InitCalls ==
  /\ users = {}
  /\ reports \in StoredTables
  /\ assignments = <<>>
  /\ comments = <<>>
  /\ events = <<>>
  /\ queue = {}
  /\ runs = <<>>
  /\ response = None
  /\ call = None
  /\ cleanup = None

\* bugAnalysisAgent.findSimilarReports(embedding, threshold, excludeReportId)
FindSimilarCall(embedding, threshold, excludeReportId, queryOk) ==
  /\ call = None
  /\ \E result \in
        findSimilarReports(reports, embedding, threshold, excludeReportId, queryOk) :
       call' = Some([op |-> "findSimilarReports", embedding |-> embedding,
                     threshold |-> threshold, excludeReportId |-> excludeReportId,
                     queryOk |-> queryOk, result |-> result,
                     queries |-> findManyCalls(embedding)])
  /\ UNCHANGED <<cleanup, users, reports, assignments, comments, events, queue, runs, response>>

\* the vectors cosineSimilarity is called with
Vectors == {<<>>, <<0, 0>>, <<1, 0>>, <<0, 1>>, <<3, 1>>, <<-1, 0>>, <<1, 0, 0>>, <<0, 0, 0>>}

\* cosineSimilarity(a, b)
CosineCall(a, b) ==
  /\ call = None
  /\ call' = Some([op |-> "cosineSimilarity", a |-> a, b |-> b,
                   result |-> cosineSimilarity(a, b)])
  /\ UNCHANGED <<cleanup, users, reports, assignments, comments, events, queue, runs, response>>

\* the texts assessSeverityFromKeywords is called with: a phrase, or two
\* phrases with a space between them
Phrases ==
  {<<"R", "C", "E">>,
   <<"X", "s", "s">>,
   <<"S", "Q", "L", " ", "i", "n", "j", "e", "c", "t", "i", "o", "n">>,
   <<"r", "o", "o", "t", " ", "a", "c", "c", "e", "s", "s">>,
   <<"c", "s", "r", "f">>,
   <<"S", "e", "n", "s", "i", "t", "i", "v", "e", " ", "D", "a", "t", "a">>,
   <<"l", "o", "g", "i", "n", " ", "p", "a", "g", "e">>,
   <<"o", "p", "e", "n", " ", "s", "o", "u", "r", "c", "e">>}
Texts == Phrases \cup { s \o Space \o t : s \in Phrases, t \in Phrases }

\* assessSeverityFromKeywords(text)
SeverityCall(text) ==
  /\ call = None
  /\ call' = Some([op |-> "assessSeverityFromKeywords", text |-> text,
                   result |-> assessSeverityFromKeywords(text)])
  /\ UNCHANGED <<cleanup, users, reports, assignments, comments, events, queue, runs, response>>

\* the bug types an analysis can carry: the labels of the model prompt's
\* taxonomy, the labels of the keyword scan, and the keys of the team table
EmittedBugTypes ==
  {"XSS", "SQL Injection", "CSRF", "Authentication Bypass", "Authorization",
   "RCE", "LFI/RFI", "SSRF", "Information Disclosure", "Business Logic"}
  \cup { bugTypePatterns[i].bugType : i \in DOMAIN bugTypePatterns }
  \cup {"Unknown"}
  \cup DOMAIN bugTypeToTeamMapping

\* assignEngineer's choice of the team for analysis.bugType
SuggestedTeamCall(bugType) ==
  /\ call = None
  /\ call' = Some([op |-> "suggestedTeam", bugType |-> bugType,
                   result |-> suggestedTeamOf(bugType)])
  /\ UNCHANGED <<cleanup, users, reports, assignments, comments, events, queue, runs, response>>

\* the workloads findAvailableEngineers can report: criticalReports counts
\* some of the activeReports
Workloads ==
  { w \in [activeReports: 0..MaxActive, criticalReports: 0..MaxCritical] :
      w.criticalReports <= w.activeReports }

\* the candidate lists selectBestEngineer is called with: two engineers
CandidateLists ==
  { { [id |-> "e1", name |-> None, team |-> t1,
       activeReports |-> w1.activeReports, criticalReports |-> w1.criticalReports],
      [id |-> "e2", name |-> None, team |-> t2,
       activeReports |-> w2.activeReports, criticalReports |-> w2.criticalReports] } :
    t1 \in {None, Some("frontend"), Some("security")},
    t2 \in {None, Some("frontend"), Some("security")},
    w1 \in Workloads, w2 \in Workloads }

\* the analyses selectBestEngineer is called with
SelectAnalyses ==
  [bugType: {"XSS", "Unknown"}, severity: {"CRITICAL", "LOW"}]

\* selectBestEngineer(engineers, analysis)
SelectCall(engineers, analysis) ==
  /\ call = None
  /\ \E result \in selectBestEngineer(engineers, analysis) :
       call' = Some([op |-> "selectBestEngineer", engineers |-> engineers,
                     analysis |-> analysis,
                     scores |-> [e \in engineers |-> scoreOf(e, analysis)],
                     result |-> result])
  /\ UNCHANGED <<cleanup, users, reports, assignments, comments, events, queue, runs, response>>

NextCalls ==
  \/ \E engineers \in CandidateLists, analysis \in SelectAnalyses :
       SelectCall(engineers, analysis)
  \/ \E bugType \in EmittedBugTypes : SuggestedTeamCall(bugType)
  \/ \E text \in Texts : SeverityCall(text)
  \/ \E a \in Vectors, b \in Vectors : CosineCall(a, b)
  \/ \E a \in FindSimilarArguments :
       FindSimilarCall(a.embedding, a.threshold, a.excludeReportId, a.queryOk)

SpecCalls == InitCalls /\ [][NextCalls]_vars

\* ------------------------------------------------------------ reassignReport
\* a report row that assignEngineer has given to the engineer
assignedTo(engineerId) ==
  [EarlierReport EXCEPT !.status = "IN_PROGRESS",
                        !.assignedEngineerId = Some(engineerId)]

\* an ACTIVE assignment made by assignEngineer
activeAssignment(reportId, engineerId) ==
  [reportId |-> reportId, engineerId |-> engineerId,
   assignedBy |-> "system", status |-> "ACTIVE"]

\* the report and assignment tables reassignReport is called on: two
\* reports, the second one assigned to e2; the first one unassigned,
\* assigned to e1, or assigned twice by two invocations of processReport
AssignedTables ==
  { [reports |-> <<EarlierReport, assignedTo("e2")>>,
     assignments |-> <<activeAssignment(2, "e2")>>],
    [reports |-> <<assignedTo("e1"), assignedTo("e2")>>,
     assignments |-> <<activeAssignment(1, "e1"), activeAssignment(2, "e2")>>],
    [reports |-> <<assignedTo("e2"), assignedTo("e2")>>,
     assignments |-> <<activeAssignment(1, "e1"), activeAssignment(2, "e2"),
                       activeAssignment(1, "e2")>>] }

InitReassign ==
  /\ users = {SystemUser} \cup Engineers
  /\ \E t \in AssignedTables : reports = t.reports /\ assignments = t.assignments
  /\ comments = <<>>
  /\ events = <<>>
  /\ queue = {}
  /\ runs = <<>>
  /\ response = None
  /\ call = None
  /\ cleanup = None

\* the arguments reassignReport is called with: a stored or an unknown
\* report, an engineer, a user of another role or an unknown user, the
\* acting user, and the optional reason
ReassignArguments ==
  [reportId: {1, UnknownId}, newEngineerId: {"e1", "e2", "system", "ghost"},
   assignedBy: {"system", "e1"}, reason: {None, Some("on leave")}]

\* prisma.user.findUnique({ where: { id } })
findUser(userTable, id) ==
  IF \E u \in userTable : u.id = id
  THEN Some(CHOOSE u \in userTable : u.id = id) ELSE None

\* a check of the target that accepts a user of any role
anyUser(newEngineer) == IsSome(newEngineer)

\* the negation of: !newEngineer || newEngineer.role !== 'ENGINEER'
validEngineer(newEngineer) ==
  IsSome(newEngineer) /\ Get(newEngineer).role = "ENGINEER"

\* the results of reassignReport
invalidEngineer ==
  [success |-> FALSE, assignedEngineerId |-> None, engineerName |-> None,
   error |-> "Invalid engineer selected"]
reassignFailed ==
  [success |-> FALSE, assignedEngineerId |-> None, engineerName |-> None,
   error |-> "Failed to reassign report"]
reassigned(newEngineer) ==
  [success |-> TRUE, assignedEngineerId |-> Some(newEngineer.id),
   engineerName |-> IF IsSome(newEngineer.name) THEN newEngineer.name ELSE Some("Unknown"),
   error |-> ""]

\* the reassignReport calls that have returned
returnedCall == IsSome(call) /\ Get(call).op = "reassignReport" /\ Get(call).pc = "done"

\* the reassignReport call at a step
reassignAt(pc) == IsSome(call) /\ Get(call).op = "reassignReport" /\ Get(call).pc = pc

\* the call after its catch block
caught(c) == [c EXCEPT !.pc = "done", !.result = Some(reassignFailed)]

\* reassignReport up to the check of the target: the call record keeps the
\* arguments, the tables as they were when the call started, and the result
ReassignLookup(a, queryOk) ==
  /\ call = None \/ returnedCall
  /\ (IF call = None THEN 0 ELSE Get(call).number) < MaxReassigns
  /\ LET newEngineer == findUser(users, a.newEngineerId)
         c == [op |-> "reassignReport", pc |-> "assignment.updateMany",
               number |-> (IF call = None THEN 0 ELSE Get(call).number) + 1,
               reportId |-> a.reportId, newEngineerId |-> a.newEngineerId,
               assignedBy |-> a.assignedBy, reason |-> a.reason,
               newEngineer |-> newEngineer,
               before |-> [reports |-> reports, assignments |-> assignments,
                           comments |-> comments],
               result |-> None]
     IN call' = IF ~queryOk THEN Some(caught(c))
                ELSE IF ~validEngineer(newEngineer)
                THEN Some([c EXCEPT !.pc = "done", !.result = Some(invalidEngineer)])
                ELSE Some(c)
  /\ UNCHANGED <<cleanup, users, reports, assignments, comments, events, queue, runs, response>>

\* an updateMany that ignores the report id
markReassignedEverywhere(table, reportId) ==
  [i \in DOMAIN table |->
     IF table[i].status = "ACTIVE"
     THEN [table[i] EXCEPT !.status = "REASSIGNED"] ELSE table[i]]

\* prisma.assignment.updateMany({ where: { reportId, status: 'ACTIVE' },
\* data: { status: 'REASSIGNED' } })
markReassigned(table, reportId) ==
  [i \in DOMAIN table |->
     IF table[i].reportId = reportId /\ table[i].status = "ACTIVE"
     THEN [table[i] EXCEPT !.status = "REASSIGNED"] ELSE table[i]]

\* reassignReport: prisma.assignment.updateMany
ReassignUpdateMany(writeOk) ==
  /\ reassignAt("assignment.updateMany")
  /\ IF writeOk
     THEN /\ assignments' = markReassigned(assignments, Get(call).reportId)
          /\ call' = Some([Get(call) EXCEPT !.pc = "assignment.create"])
     ELSE /\ call' = Some(caught(Get(call)))
          /\ UNCHANGED assignments
  /\ UNCHANGED <<cleanup, users, reports, comments, events, queue, runs, response>>

\* reassignReport: prisma.assignment.create
ReassignCreate(writeOk) ==
  /\ reassignAt("assignment.create")
  /\ IF writeOk
     THEN /\ assignments' = Append(assignments,
               [reportId |-> Get(call).reportId,
                engineerId |-> Get(call).newEngineerId,
                assignedBy |-> Get(call).assignedBy, status |-> "ACTIVE"])
          /\ call' = Some([Get(call) EXCEPT !.pc = "report.update"])
     ELSE /\ call' = Some(caught(Get(call)))
          /\ UNCHANGED assignments
  /\ UNCHANGED <<cleanup, users, reports, comments, events, queue, runs, response>>

\* reassignReport: prisma.report.update, which throws when no row has the id
ReassignReportUpdate(writeOk) ==
  /\ reassignAt("report.update")
  /\ IF writeOk /\ Get(call).reportId \in DOMAIN reports
     THEN /\ reports' = [reports EXCEPT ![Get(call).reportId] =
               [@ EXCEPT !.assignedEngineerId = Some(Get(call).newEngineerId),
                         !.status = "IN_PROGRESS"]]
          /\ call' = Some([Get(call) EXCEPT !.pc = "reportComment.create"])
     ELSE /\ call' = Some(caught(Get(call)))
          /\ UNCHANGED reports
  /\ UNCHANGED <<cleanup, users, assignments, comments, events, queue, runs, response>>

\* the audit comment: `Report reassigned to ${name || id}` and the reason
\* when one is given
reassignComment(c) ==
  [reportId |-> c.reportId, userId |-> c.assignedBy,
   comment |->
     <<"Report reassigned to ",
       IF IsSome(Get(c.newEngineer).name)
       THEN Get(Get(c.newEngineer).name) ELSE Get(c.newEngineer).id>>
     \o (IF IsSome(c.reason) THEN <<". Reason: ", Get(c.reason)>> ELSE <<>>)]

\* reassignReport: prisma.reportComment.create, then the success result
ReassignComment(writeOk) ==
  /\ reassignAt("reportComment.create")
  /\ IF writeOk
     THEN /\ comments' = Append(comments, reassignComment(Get(call)))
          /\ call' = Some([Get(call) EXCEPT !.pc = "done",
                 !.result = Some(reassigned(Get(Get(call).newEngineer)))])
     ELSE /\ call' = Some(caught(Get(call)))
          /\ UNCHANGED comments
  /\ UNCHANGED <<cleanup, users, reports, assignments, events, queue, runs, response>>

\* reports are reassigned one call after another
NextReassign ==
  \/ \E a \in ReassignArguments, queryOk \in BOOLEAN : ReassignLookup(a, queryOk)
  \/ \E writeOk \in BOOLEAN : ReassignUpdateMany(writeOk)
  \/ \E writeOk \in BOOLEAN : ReassignCreate(writeOk)
  \/ \E writeOk \in BOOLEAN : ReassignReportUpdate(writeOk)
  \/ \E writeOk \in BOOLEAN : ReassignComment(writeOk)

SpecReassign == InitReassign /\ [][NextReassign]_vars

\* ------------------------------------------------------------ assignEngineer
\* a second engineer of the frontend team
ThirdEngineer ==
  [id |-> "e3", name |-> Some("Carol"), role |-> "ENGINEER", team |-> Some("frontend")]

\* the analyses assignEngineer is called with
AssignAnalyses ==
  { [bugType |-> b, severity |-> s, affectedSystem |-> "Search",
     confidence |-> 90, summary |-> <<"model">>, suggestedAssignment |-> "security"] :
    b \in {"XSS", "SQL Injection", "Unknown"}, s \in {"MEDIUM", "CRITICAL"} }

\* a report row after update-report-analysis found no duplicate
analysedRow(analysis) ==
  updateData([EarlierReport EXCEPT !.bugType = None, !.aiAnalysis = None,
                                   !.embedding = None],
             analysis, None, <<>>)

\* a report row in the engineer's hands, of the severity
loadOf(engineerId, severity) ==
  [assignedTo(engineerId) EXCEPT !.severity = Some(severity)]

\* the reports the engineers hold when the invocations reach assign-engineer
InitialLoads ==
  { <<>>,
    <<[engineerId |-> "e1", severity |-> "MEDIUM"]>>,
    <<[engineerId |-> "e1", severity |-> "CRITICAL"]>>,
    <<[engineerId |-> "e3", severity |-> "CRITICAL"],
      [engineerId |-> "e2", severity |-> "MEDIUM"]>> }

\* an invocation of processReport that has reached assign-engineer
assigning(id, analysis) ==
  [started(id) EXCEPT !.pc = "assign-engineer",
                      !.report = Some(analysedRow(analysis)),
                      !.analysis = Some(analysis),
                      !.steps = <<"fetch-report", "ai-analysis", "generate-embedding",
                                  "check-duplicates", "update-report-analysis">>]

\* one to MaxAssigning invocations, each for a report of its own with the
\* same analysis, are at assign-engineer; the other reports are held by
\* engineers
InitAssign ==
  /\ users = {SystemUser, ThirdEngineer} \cup Engineers
  /\ \E n \in 1..MaxAssigning, analysis \in AssignAnalyses, loads \in InitialLoads :
       /\ reports = [i \in 1..(n + Len(loads)) |->
                       IF i <= n THEN analysedRow(analysis)
                       ELSE loadOf(loads[i - n].engineerId, loads[i - n].severity)]
       /\ assignments = [i \in 1..Len(loads) |->
                           activeAssignment(n + i, loads[i].engineerId)]
       /\ runs = [k \in { <<id, 1>> : id \in 1..n } |-> assigning(k[1], analysis)]
  /\ comments = <<>>
  /\ events = <<>>
  /\ queue = {}
  /\ response = None
  /\ call = None
  /\ cleanup = None

\* the invocations go through assign-engineer and send-notification
NextAssign ==
  \/ \E r \in DOMAIN runs, queryOk \in BOOLEAN : AssignSelect(r, queryOk)
  \/ \E r \in DOMAIN runs, writeOk \in BOOLEAN : AssignCreate(r, writeOk)
  \/ \E r \in DOMAIN runs, writeOk \in BOOLEAN : AssignUpdate(r, writeOk)
  \/ \E r \in DOMAIN runs, sendOk \in BOOLEAN : SendNotification(r, sendOk)

SpecAssign == InitAssign /\ [][NextAssign]_vars

\* --------------------------------------------------------- cleanupOldReports
\* a report row that triage has marked DUPLICATE of the report
markedDuplicateOf(id) ==
  [EarlierReport EXCEPT !.status = "DUPLICATE", !.duplicateOfId = Some(id),
                        !.aiAnalysis = Some([Get(EarlierReport.aiAnalysis)
                                               EXCEPT !.duplicatesFound = 1])]

\* a report row that its engineer has resolved
resolvedBy(engineerId) ==
  [EarlierReport EXCEPT !.status = "RESOLVED",
                        !.assignedEngineerId = Some(engineerId)]

\* the tables the job runs on: report 1 is marked DUPLICATE of report 2,
\* report 2 is assigned to e2, report 3 is resolved
InitCleanup ==
  /\ users = {SystemUser} \cup Engineers
  /\ reports = <<markedDuplicateOf(2), assignedTo("e2"), resolvedBy("e1")>>
  /\ assignments = <<activeAssignment(2, "e2"),
                     [activeAssignment(3, "e1") EXCEPT !.status = "COMPLETED"]>>
  /\ comments = <<>>
  /\ events = <<>>
  /\ queue = {}
  /\ runs = <<>>
  /\ response = None
  /\ call = None
  /\ cleanup = None

\* the job at a step
cleanupAt(pc) == IsSome(cleanup) /\ Get(cleanup).pc = pc

\* the cron trigger starts the job
CleanupStart ==
  /\ (IF cleanup = None THEN 0 ELSE Get(cleanup).number) < MaxCleanups
  /\ cleanup = None \/ cleanupAt("done") \/ cleanupAt("failed")
  /\ cleanup' = Some([pc |-> "archive-old-reports",
                      number |-> (IF cleanup = None THEN 0 ELSE Get(cleanup).number) + 1,
                      archivedCount |-> 0, duplicateReports |-> {},
                      cleanupCount |-> 0])
  /\ UNCHANGED <<users, reports, assignments, comments, events, queue, runs, response, call>>

\* the comment the job leaves on an archived report
archiveComment(id) ==
  [reportId |-> id, userId |-> "system",
   comment |-> <<"Report automatically archived due to age (90+ days resolved)">>]

\* the comments for the reports of the set, in the order of their ids
RECURSIVE archiveComments(_, _)
archiveComments(ids, from) ==
  IF from > Len(reports) THEN <<>>
  ELSE (IF from \in ids THEN <<archiveComment(from)>> ELSE <<>>)
       \o archiveComments(ids, from + 1)

\* step archive-old-reports: oldReports are the RESOLVED rows last updated
\* more than 90 days ago, any of the RESOLVED rows here
ArchiveOldReports(oldReports, writeOk) ==
  /\ cleanupAt("archive-old-reports")
  /\ oldReports \subseteq { id \in DOMAIN reports : reports[id].status = "RESOLVED" }
  /\ IF writeOk
     THEN /\ comments' = comments \o archiveComments(oldReports, 1)
          /\ cleanup' = Some([Get(cleanup) EXCEPT
                 !.pc = "cleanup-duplicate-embeddings",
                 !.archivedCount = Cardinality(oldReports)])
     ELSE /\ cleanup' = Some([Get(cleanup) EXCEPT !.pc = "failed"])
          /\ UNCHANGED comments
  /\ UNCHANGED <<users, reports, assignments, events, queue, runs, response, call>>

\* step cleanup-duplicate-embeddings: prisma.report.findMany of the
\* DUPLICATE rows that have an embedding
CleanupFind(queryOk) ==
  /\ cleanupAt("cleanup-duplicate-embeddings")
  /\ cleanup' =
       IF queryOk
       THEN Some([Get(cleanup) EXCEPT
              !.pc = "report.updateMany",
              !.duplicateReports =
                 { id \in DOMAIN reports :
                     reports[id].status = "DUPLICATE" /\ IsSome(reports[id].embedding) }])
       ELSE Some([Get(cleanup) EXCEPT !.pc = "failed"])
  /\ UNCHANGED <<users, reports, assignments, comments, events, queue, runs, response, call>>

\* prisma.report.updateMany({ where: { id: { in: ids } }, data: { embedding: null } })
cleared(table, ids) ==
  [id \in DOMAIN table |->
     IF id \in ids THEN [table[id] EXCEPT !.embedding = None] ELSE table[id]]

\* step cleanup-duplicate-embeddings: prisma.report.updateMany on the rows
\* found, then the job's result
CleanupUpdate(writeOk) ==
  /\ cleanupAt("report.updateMany")
  /\ IF writeOk
     THEN /\ reports' = cleared(reports, Get(cleanup).duplicateReports)
          /\ cleanup' = Some([Get(cleanup) EXCEPT
                 !.pc = "done",
                 !.cleanupCount = Cardinality(Get(cleanup).duplicateReports)])
     ELSE /\ cleanup' = Some([Get(cleanup) EXCEPT !.pc = "failed"])
          /\ UNCHANGED reports
  /\ UNCHANGED <<users, assignments, comments, events, queue, runs, response, call>>

\* the job runs while reports are reassigned
NextCleanup ==
  \/ CleanupStart
  \/ \E oldReports \in SUBSET DOMAIN reports, writeOk \in BOOLEAN :
       ArchiveOldReports(oldReports, writeOk)
  \/ \E queryOk \in BOOLEAN : CleanupFind(queryOk)
  \/ \E writeOk \in BOOLEAN : CleanupUpdate(writeOk)
  \/ \E a \in ReassignArguments, queryOk \in BOOLEAN : ReassignLookup(a, queryOk)
  \/ \E writeOk \in BOOLEAN : ReassignUpdateMany(writeOk)
  \/ \E writeOk \in BOOLEAN : ReassignCreate(writeOk)
  \/ \E writeOk \in BOOLEAN : ReassignReportUpdate(writeOk)
  \/ \E writeOk \in BOOLEAN : ReassignComment(writeOk)

SpecCleanup == InitCleanup /\ [][NextCleanup]_vars

\* ------------------------------------------------------------- vocabulary
Range(s) == { s[i] : i \in DOMAIN s }
IsPrefix(s, t) == Len(s) <= Len(t) /\ \A i \in 1..Len(s) : s[i] = t[i]

Analysed ==
  <<"fetch-report", "ai-analysis", "generate-embedding", "check-duplicates",
    "update-report-analysis">>
AssignPath == Analysed \o <<"assign-engineer", "send-notification">>
DuplicatePath == Analysed \o <<"handle-duplicate">>

assignmentsOf(id) == { i \in DOMAIN assignments : assignments[i].reportId = id }
activeAssignments(id, engineerId) ==
  { i \in assignmentsOf(id) :
      assignments[i].engineerId = engineerId /\ assignments[i].status = "ACTIVE" }
commentsOf(id) == { i \in DOMAIN comments : comments[i].reportId = id }
eventsOf(id) == { i \in DOMAIN events : events[i].reportId = id }
engineersIn(userTable) == { u \in userTable : u.role = "ENGINEER" }
teamEngineers(userTable, team) ==
  { u \in engineersIn(userTable) : u.team = Some(team) }
untouched(row) ==
  /\ row.status = "NEW" /\ row.bugType = None /\ row.aiAnalysis = None
  /\ row.embedding = None /\ row.duplicateOfId = None
  /\ row.assignedEngineerId = None

\* ---------------------------------------------------------------- claims
\* C1: in every run the steps complete in the order fetch-report,
\* ai-analysis, generate-embedding, check-duplicates, update-report-analysis
\* and then one branch: assign-engineer (followed by send-notification only
\* after a successful assignment) when the duplicate list is empty,
\* handle-duplicate when it is not; a step is entered only when all the
\* steps before it have completed, the two branches never both run, and
\* the rows and events a later step writes exist only once the earlier
\* steps are done.
C1_StepsInOrder ==
  /\ \A k \in DOMAIN runs :
       LET run == runs[k] IN
       /\ IsPrefix(run.steps, AssignPath) \/ IsPrefix(run.steps, DuplicatePath)
       /\ \A i \in 1..Len(Analysed) :
            run.pc = Analysed[i] => run.steps = SubSeq(Analysed, 1, i - 1)
       /\ run.pc \in {"assign-engineer", "assignment.create", "report.update"}
            => run.steps = Analysed /\ Len(run.duplicates) = 0
       /\ run.pc = "handle-duplicate"
            => run.steps = Analysed /\ Len(run.duplicates) > 0
       /\ run.pc = "send-notification"
            => run.steps = Analysed \o <<"assign-engineer">>
       /\ "assign-engineer" \in Range(run.steps) => Len(run.duplicates) = 0
       /\ "handle-duplicate" \in Range(run.steps) => Len(run.duplicates) > 0
       /\ (run.pc = "send-notification" \/ "send-notification" \in Range(run.steps))
            => IsSome(run.assignmentResult) /\ Get(run.assignmentResult).success
       /\ run.pc = "done" =>
            \/ run.steps = DuplicatePath
            \/ run.steps = AssignPath
            \/ /\ run.steps = Analysed \o <<"assign-engineer">>
               /\ ~Get(run.assignmentResult).success
       /\ (run.reportId \in DOMAIN reports /\ ~IsPrefix(Analysed, run.steps))
            => untouched(reports[run.reportId])
  /\ \A i \in DOMAIN assignments :
       \E k \in invocationsOf(assignments[i].reportId) :
          runs[k].steps = Analysed \/ IsPrefix(Analysed \o <<"assign-engineer">>, runs[k].steps)
  /\ \A i \in DOMAIN comments :
       \E k \in invocationsOf(comments[i].reportId) : runs[k].steps = DuplicatePath
  /\ \A i \in DOMAIN events :
       \E k \in invocationsOf(events[i].reportId) : runs[k].steps = AssignPath

\* C1 witness: one run finished through assign-engineer and
\* send-notification and another through handle-duplicate
C1_Witness ==
  \E k1, k2 \in DOMAIN runs :
     /\ runs[k1].pc = "done" /\ runs[k1].steps = AssignPath
     /\ runs[k2].pc = "done" /\ runs[k2].steps = DuplicatePath

\* C2: a run whose duplicate list is not empty leaves, from its
\* update-report-analysis write on, the report in status DUPLICATE with
\* duplicateOfId the id of the first match, which no other match exceeds in
\* similarity; that one write also sets bug type, severity and analysis
\* (nothing of it is on the row before); the run creates no Assignment, sets
\* no assigned engineer and emits no engineer.assigned event.
C2_DuplicateOutcome ==
  \A k \in DOMAIN runs :
     LET run == runs[k]
         row == reports[run.reportId]
     IN Len(run.duplicates) > 0 =>
        /\ \A j \in DOMAIN run.duplicates :
             ~Less(run.duplicates[1].similarity, run.duplicates[j].similarity)
        /\ run.pc \in {"update-report-analysis", "failed"} => untouched(row)
        /\ run.pc \in {"handle-duplicate", "done"} =>
             /\ row.status = "DUPLICATE"
             /\ row.duplicateOfId = Some(run.duplicates[1].id)
             /\ row.bugType = Some(Get(run.analysis).bugType)
             /\ row.severity = Some(Get(run.analysis).severity)
             /\ IsSome(row.aiAnalysis)
             /\ Get(row.aiAnalysis).confidence = Get(run.analysis).confidence
             /\ Get(row.aiAnalysis).duplicatesFound = Len(run.duplicates)
        /\ assignmentsOf(run.reportId) = {}
        /\ row.assignedEngineerId = None
        /\ eventsOf(run.reportId) = {}
        /\ run.pc = "done" => ~Get(run.summary).assigned

\* C2 witness: a finished run that found two matches of different
\* similarity
C2_Witness ==
  \E k \in DOMAIN runs :
     /\ runs[k].pc = "done"
     /\ Len(runs[k].duplicates) = 2
     /\ Less(runs[k].duplicates[2].similarity, runs[k].duplicates[1].similarity)
     /\ reports[runs[k].reportId].status = "DUPLICATE"

\* C3 as stated: a finished run with an empty duplicate list, when an
\* ENGINEER-role user exists, has left the report IN_PROGRESS, assigned to
\* an engineer (of the mapped team when that team has one), with an ACTIVE
\* Assignment for that report and engineer and an engineer.assigned event
\* carrying both ids.
C3_AlwaysAssignedAndNotified ==
  \A k \in DOMAIN runs :
     LET run == runs[k]
         row == reports[run.reportId]
         team == suggestedTeamOf(Get(run.analysis).bugType)
     IN (run.pc = "done" /\ Len(run.duplicates) = 0 /\ engineersIn(users) # {}) =>
        /\ row.status = "IN_PROGRESS"
        /\ \E e \in engineersIn(users) :
             /\ row.assignedEngineerId = Some(e.id)
             /\ teamEngineers(users, team) # {} => e.team = Some(team)
             /\ activeAssignments(run.reportId, e.id) # {}
             /\ \E i \in eventsOf(run.reportId) : events[i].engineerId = e.id

\* C3 amended: in a finished run with an empty duplicate list, when an
\* ENGINEER-role user exists, assign fails only through a failed storage
\* operation; when it succeeds the report is IN_PROGRESS, assigned to an
\* ENGINEER-role user (of the mapped team when that team has an engineer),
\* an ACTIVE Assignment links the two, and an engineer.assigned event
\* carrying both ids has been emitted unless the send failed.
C3_AssignedUnlessStorageFails ==
  \A k \in DOMAIN runs :
     LET run == runs[k]
         row == reports[run.reportId]
         team == suggestedTeamOf(Get(run.analysis).bugType)
         result == Get(run.assignmentResult)
     IN (run.pc = "done" /\ Len(run.duplicates) = 0 /\ engineersIn(users) # {}) =>
        /\ ~result.success => result.error = "Failed to assign engineer"
        /\ result.success =>
             /\ row.status = "IN_PROGRESS"
             /\ \E e \in engineersIn(users) :
                  /\ row.assignedEngineerId = Some(e.id)
                  /\ result.assignedEngineerId = Some(e.id)
                  /\ teamEngineers(users, team) # {} => e.team = Some(team)
                  /\ activeAssignments(run.reportId, e.id) # {}
                  /\ ~run.sendFailed =>
                       \E i \in eventsOf(run.reportId) : events[i].engineerId = e.id

\* C3 witness: a finished run assigned a report whose mapped team has no
\* engineer to an engineer of the pool and emitted the event
C3_Witness ==
  \E k \in DOMAIN runs :
     /\ runs[k].pc = "done"
     /\ Len(runs[k].duplicates) = 0
     /\ Get(runs[k].assignmentResult).success
     /\ teamEngineers(users, suggestedTeamOf(Get(runs[k].analysis).bugType)) = {}
     /\ reports[runs[k].reportId].status = "IN_PROGRESS"
     /\ eventsOf(runs[k].reportId) # {}

\* C4 as stated: a run for an id with no report fails at fetch-report
\* with nothing done, and a run fails in no other case.
C4_FailsOnlyWhenReportMissing ==
  \A k \in DOMAIN runs :
     LET run == runs[k] IN
     /\ (run.reportId \notin DOMAIN reports /\ run.pc # "fetch-report")
          => run.pc = "failed" /\ run.steps = <<>>
     /\ run.pc = "failed" => run.reportId \notin DOMAIN reports

\* C4 amended: a run for an id with no report fails at fetch-report: no
\* later step runs (no classification, no embedding), no report,
\* assignment or comment row is written and no event is emitted for that
\* id; a run fails in no other case than this one, a failed findUnique
\* of fetch-report, or a failed update of update-report-analysis.
C4_FailsAtFetchOrStorage ==
  \A k \in DOMAIN runs :
     LET run == runs[k] IN
     /\ (run.reportId \notin DOMAIN reports /\ run.pc # "fetch-report") =>
          /\ run.pc = "failed"
          /\ run.error \in {Some("Report not found"), Some("findUnique failed")}
          /\ run.steps = <<>> /\ run.analysis = None /\ run.embedding = None
          /\ run.summary = None
          /\ assignmentsOf(run.reportId) = {}
          /\ commentsOf(run.reportId) = {}
          /\ eventsOf(run.reportId) = {}
     /\ run.pc = "failed" =>
          \/ run.error = Some("Report not found") /\ run.reportId \notin DOMAIN reports
          \/ run.error = Some("findUnique failed") /\ run.steps = <<>>
          \/ /\ run.error = Some("update failed")
             /\ run.steps = SubSeq(Analysed, 1, 4)
             /\ run.reportId \in DOMAIN reports
     /\ run.pc = "done" => run.reportId \in DOMAIN reports /\ IsSome(run.summary)

\* C4 witness: the run for the unknown id has failed at fetch-report while
\* another run has written its report
C4_Witness ==
  /\ \E k \in invocationsOf(UnknownId) :
       runs[k].pc = "failed" /\ runs[k].error = Some("Report not found")
  /\ \E k \in DOMAIN runs : runs[k].pc = "done"

\* C5 as stated: a step that runs again for a report on which its effects
\* were already applied changes nothing: a repeated assign adds no
\* Assignment and keeps the assigned engineer, a repeated handle-duplicate
\* adds no comment, a repeated update-report-analysis with the same list
\* of matches keeps status and duplicateOfId.
C5_RepeatedStepsIdempotent ==
  [][\A k \in DOMAIN runs :
       (k \in DOMAIN runs' /\ runs'[k].pc # runs[k].pc /\ k[1] \in DOMAIN reports) =>
         LET id == k[1]
             row == reports[id]
             rowAfter == reports'[id]
         IN /\ ( /\ runs[k].pc \in {"assignment.create", "report.update"}
                 /\ row.status = "IN_PROGRESS"
                 /\ \E e \in users : /\ row.assignedEngineerId = Some(e.id)
                                      /\ activeAssignments(id, e.id) # {} )
                => /\ assignments' = assignments
                   /\ rowAfter.assignedEngineerId = row.assignedEngineerId
            /\ (runs[k].pc = "handle-duplicate" /\ commentsOf(id) # {})
                => comments' = comments
            /\ ( /\ runs[k].pc = "update-report-analysis"
                 /\ IsSome(row.aiAnalysis)
                 /\ Get(row.aiAnalysis).duplicatesFound = Len(runs[k].duplicates)
                 /\ Len(runs[k].duplicates) > 0
                      => row.duplicateOfId = Some(runs[k].duplicates[1].id) )
                => /\ rowAfter.status = row.status
                   /\ rowAfter.duplicateOfId = row.duplicateOfId
    ]_vars

\* C6: when the model call of the classification fails, the analysis is
\* the keyword scan of title and description with confidence 0.3; these
\* are the values update-report-analysis persists and the summary
\* reports; such a run ends in failure only through the storage failure
\* of update-report-analysis; and no persisted or reported confidence is
\* the other fallback constant, 0.1.
C6_ClassificationFallback ==
  /\ \A k \in DOMAIN runs :
       LET run == runs[k] IN
       (run.modelFailed /\ IsSome(run.analysis)) =>
         LET report == Get(run.report)
             scan == keywordScan[report.title \o Space \o report.description]
             analysis == Get(run.analysis)
             row == reports[run.reportId]
         IN /\ analysis.bugType = scan.bugType
            /\ analysis.severity = scan.severity
            /\ analysis.confidence = FallbackConfidence
            /\ run.pc = "failed" => run.error = Some("update failed")
            /\ run.pc \notin {"generate-embedding", "check-duplicates",
                               "update-report-analysis", "failed"} =>
                 /\ row.bugType = Some(scan.bugType)
                 /\ row.severity = Some(scan.severity)
                 /\ Get(row.aiAnalysis).bugType = scan.bugType
                 /\ Get(row.aiAnalysis).severity = scan.severity
                 /\ Get(row.aiAnalysis).confidence = FallbackConfidence
            /\ run.pc = "done" =>
                 /\ Get(run.summary).bugType = scan.bugType
                 /\ Get(run.summary).severity = scan.severity
                 /\ Get(run.summary).confidence = FallbackConfidence
  /\ \A id \in DOMAIN reports :
       IsSome(reports[id].aiAnalysis) =>
         Get(reports[id].aiAnalysis).confidence # OrchestratorFallbackConfidence
  /\ \A k \in DOMAIN runs :
       IsSome(runs[k].summary) =>
         Get(runs[k].summary).confidence # OrchestratorFallbackConfidence

\* C6 witness: a run whose model call failed has finished, and its report
\* carries the scanned bug type XSS, not the type the model would answer
C6_Witness ==
  \E k \in DOMAIN runs :
     /\ runs[k].modelFailed
     /\ runs[k].pc = "done"
     /\ reports[runs[k].reportId].bugType = Some("XSS")
     /\ Get(reports[runs[k].reportId].aiAnalysis).confidence = FallbackConfidence
     /\ Get(runs[k].summary).confidence = FallbackConfidence

\* C7: when the embedding call fails, the step yields null; the duplicate
\* scan then returns no match; update-report-analysis leaves the stored
\* embedding, the status and duplicateOfId as they were; the run never
\* marks the report DUPLICATE, never runs handle-duplicate, and goes on to
\* assign-engineer; it ends in failure only through the storage failure of
\* update-report-analysis.
C7_EmbeddingUnavailable ==
  \A k \in DOMAIN runs :
     LET run == runs[k]
         row == reports[run.reportId]
     IN run.embeddingFailed =>
        /\ run.embedding = None
        /\ run.duplicates = <<>>
        /\ row.embedding = None
        /\ row.duplicateOfId = None
        /\ row.status # "DUPLICATE"
        /\ run.pc = "assign-engineer" => row.status = "NEW" /\ IsSome(row.aiAnalysis)
        /\ run.pc # "handle-duplicate"
        /\ "handle-duplicate" \notin Range(run.steps)
        /\ run.pc = "failed" => run.error = Some("update failed")
        /\ run.pc = "done" =>
             /\ IsPrefix(Analysed \o <<"assign-engineer">>, run.steps)
             /\ IsSome(run.assignmentResult)
             /\ Get(run.summary).duplicatesFound = 0

\* C7 witness: a run whose embedding call failed has been through
\* update-report-analysis and assign-engineer while the table holds a
\* report with a stored embedding to compare with
C7_Witness ==
  \E k \in DOMAIN runs :
     /\ runs[k].embeddingFailed
     /\ runs[k].pc = "done"
     /\ Get(runs[k].assignmentResult).success
     /\ reports[runs[k].reportId].embedding = None
     /\ \E id \in DOMAIN reports : IsSome(reports[id].embedding)

\* C8: with no ENGINEER-role user, a run that found no duplicate finishes
\* with a failure result of assignEngineer and a summary saying assigned =
\* false; no Assignment exists for the report, no engineer.assigned event
\* was emitted, the report has no assigned engineer and is in status NEW
\* with the bug type and severity of the analysis; such a run does not end
\* in failure at or after assign-engineer.
C8_NoEngineers ==
  \A k \in DOMAIN runs :
     LET run == runs[k]
         row == reports[run.reportId]
     IN (engineersIn(users) = {} /\ run.reportId \in DOMAIN reports) =>
        /\ run.pc \notin {"assignment.create", "report.update", "send-notification"}
        /\ assignmentsOf(run.reportId) = {}
        /\ eventsOf(run.reportId) = {}
        /\ row.assignedEngineerId = None
        /\ row.status # "IN_PROGRESS"
        /\ run.pc = "failed" => "update-report-analysis" \notin Range(run.steps)
        /\ (run.pc = "done" /\ Len(run.duplicates) = 0) =>
             /\ ~Get(run.assignmentResult).success
             /\ Get(run.assignmentResult).assignedEngineerId = None
             /\ ~Get(run.summary).assigned
             /\ row.status = "NEW"
             /\ row.bugType = Some(Get(run.analysis).bugType)
             /\ row.severity = Some(Get(run.analysis).severity)

\* C8 witness: with only the system user in the user table, a run has
\* finished with the result "No available engineers found"
C8_Witness ==
  \E k \in DOMAIN runs :
     /\ users = {SystemUser}
     /\ runs[k].pc = "done"
     /\ runs[k].assignmentResult = Some(noEngineers)
     /\ reports[runs[k].reportId].status = "NEW"
     /\ IsSome(reports[runs[k].reportId].bugType)

\* C9: every engineer.assigned event belongs to a finished run of its
\* report whose assignEngineer succeeded, and carries the engineer id that
\* assignEngineer returned and wrote to the report; a run whose send
\* failed has finished with its summary, and the assignment stands: the
\* report is IN_PROGRESS with that engineer and the ACTIVE Assignment
\* exists.
C9_NotifyAfterAssign ==
  /\ \A i \in DOMAIN events :
       \E k \in invocationsOf(events[i].reportId) :
          LET run == runs[k]
              row == reports[run.reportId]
          IN /\ run.pc = "done"
             /\ IsPrefix(Analysed \o <<"assign-engineer">>, run.steps)
             /\ Get(run.assignmentResult).success
             /\ Get(run.assignmentResult).assignedEngineerId = Some(events[i].engineerId)
             /\ row.assignedEngineerId = Some(events[i].engineerId)
             /\ activeAssignments(run.reportId, events[i].engineerId) # {}
             /\ ~run.sendFailed
  /\ \A k \in DOMAIN runs :
       LET run == runs[k]
           row == reports[run.reportId]
       IN run.sendFailed =>
          /\ run.pc = "done"
          /\ run.error = None
          /\ Get(run.summary).assigned
          /\ eventsOf(run.reportId) = {}
          /\ row.status = "IN_PROGRESS"
          /\ row.assignedEngineerId = Get(run.assignmentResult).assignedEngineerId
          /\ activeAssignments(run.reportId, Get(row.assignedEngineerId)) # {}

\* C9 witness: one run has emitted its event and another run's send has
\* failed after its assignment
C9_Witness ==
  /\ events # <<>>
  /\ \E k \in DOMAIN runs :
       runs[k].sendFailed /\ reports[runs[k].reportId].status = "IN_PROGRESS"

\* C10 as stated: a finished run that found duplicates has left exactly
\* one comment of the system user on the report, naming the first match
\* and its similarity as a rounded percentage, when the system user
\* exists, and none when it does not; either way the report is DUPLICATE.
C10_CommentWheneverSystemUserExists ==
  \A k \in DOMAIN runs :
     LET run == runs[k] IN
     (run.pc = "done" /\ Len(run.duplicates) > 0) =>
        /\ reports[run.reportId].status = "DUPLICATE"
        /\ IF (\E u \in users : u.id = "system")
           THEN /\ Cardinality(commentsOf(run.reportId)) = 1
                /\ \A i \in commentsOf(run.reportId) :
                     comments[i] = duplicateComment(run.reportId, run.duplicates[1])
           ELSE commentsOf(run.reportId) = {}

\* C10 amended: a run that found duplicates never fails in
\* handle-duplicate and finishes with the report DUPLICATE; it has left
\* exactly one comment of the system user on the report, naming the first
\* match and its similarity as a rounded percentage, when the system user
\* exists and the comment write succeeded, and no comment when the system
\* user does not exist or the write failed.
C10_CommentUnlessWriteFails ==
  \A k \in DOMAIN runs :
     LET run == runs[k] IN
     /\ (run.pc = "failed" /\ Len(run.duplicates) > 0) => run.error = Some("update failed")
     /\ run.commentFailed => (\E u \in users : u.id = "system")
     /\ (run.pc # "done" /\ run.reportId \in DOMAIN reports) => commentsOf(run.reportId) = {}
     /\ (run.pc = "done" /\ Len(run.duplicates) = 0) => commentsOf(run.reportId) = {}
     /\ (run.pc = "done" /\ Len(run.duplicates) > 0) =>
          /\ reports[run.reportId].status = "DUPLICATE"
          /\ run.steps = DuplicatePath
          /\ IF (\E u \in users : u.id = "system") /\ ~run.commentFailed
             THEN /\ Cardinality(commentsOf(run.reportId)) = 1
                  /\ \A i \in commentsOf(run.reportId) :
                       /\ comments[i].userId = "system"
                       /\ comments[i].duplicateOf = run.duplicates[1].id
                       /\ comments[i].title = run.duplicates[1].title
                       /\ comments[i].percent = RoundPercent(run.duplicates[1].similarity)
             ELSE commentsOf(run.reportId) = {}

\* C10 witness: one run has written the comment, with the similarity of
\* its first match rounded to 91 percent, and another run has finished
\* as DUPLICATE without a comment
C10_Witness ==
  /\ \E i \in DOMAIN comments : comments[i].percent = 91
  /\ \E k \in DOMAIN runs :
       /\ runs[k].pc = "done" /\ Len(runs[k].duplicates) > 0
       /\ commentsOf(runs[k].reportId) = {}

\* the last direct call, when it is a call of op
called(op) == IsSome(call) /\ Get(call).op = op

\* the similarity findSimilarReports computes for stored report id
similarityOf(embedding, id) ==
  cosineSimilarity(Get(embedding), JSONParse(Get(reports[id].embedding)))

\* the stored reports that qualify for the result of the last call: they
\* have an embedding that can be read, are not the excluded report, and
\* reach the threshold
qualifying ==
  { id \in DOMAIN reports :
      /\ IsSome(reports[id].embedding)
      /\ "json" \in DOMAIN Get(reports[id].embedding)
      /\ Get(call).excludeReportId # Some(id)
      /\ AtLeast(similarityOf(Get(call).embedding, id), Get(call).threshold) }

C12_NullEmbeddingNoAccess ==
  (called("findSimilarReports") /\ Get(call).embedding = None) =>
     /\ Get(call).result = <<>>
     /\ Get(call).queries = 0

\* C12 witness: a call with a null embedding, threshold 0 and no excluded
\* id on a full table, all of whose rows have an embedding, returned []
C12_Witness ==
  /\ called("findSimilarReports")
  /\ Get(call).embedding = None
  /\ Get(call).threshold = 0
  /\ Get(call).excludeReportId = None
  /\ Len(reports) = MaxStored
  /\ \A id \in DOMAIN reports :
       /\ IsSome(reports[id].embedding)
       /\ "json" \in DOMAIN Get(reports[id].embedding)
  /\ Get(call).result = <<>>

\* the stored reports whose embedding cannot be deserialized
unreadable ==
  { id \in DOMAIN reports :
      IsSome(reports[id].embedding) /\ "json" \notin DOMAIN Get(reports[id].embedding) }

\* the table without those reports
readable == [id \in DOMAIN reports \ unreadable |-> reports[id]]

\* C13: on a table holding stored embeddings that cannot be deserialized,
\* findSimilarReports returns what it returns on the table without those
\* reports: the result of the call is a result of the same call on that
\* table, and the two calls have the same possible results.
C13_CorruptEmbeddingSkipped ==
  (called("findSimilarReports") /\ unreadable # {}) =>
     LET a == Get(call) IN
     /\ a.result \in findSimilarReports(readable, a.embedding, a.threshold,
                                         a.excludeReportId, a.queryOk)
     /\ findSimilarReports(reports, a.embedding, a.threshold,
                           a.excludeReportId, a.queryOk)
        = findSimilarReports(readable, a.embedding, a.threshold,
                             a.excludeReportId, a.queryOk)
     /\ \A i \in DOMAIN a.result : a.result[i].id \notin unreadable

\* C13 witness: a call on a table with several unreadable embeddings, none
\* of them excluded, returned several matches at the pipeline threshold
C13_Witness ==
  /\ called("findSimilarReports")
  /\ Cardinality(unreadable) > 1
  /\ Get(call).excludeReportId = None
  /\ Len(Get(call).result) > 1
  /\ Get(call).threshold = DuplicateThreshold

\* the vector has zero magnitude
zeroMagnitude(v) == \A i \in DOMAIN v : v[i] = 0

\* the similarity is a number and is 0: the quotient has numerator 0 and a
\* nonzero denominator
isZero(s) == s.dot = 0 /\ s.na # 0 /\ s.nb # 0

\* C14: cosineSimilarity of two vectors of different lengths, or of which
\* one has zero magnitude, is the number 0; findSimilarReports called with
\* the pipeline threshold 0.85 returns no stored report whose embedding,
\* or the query's, is of that kind, and every similarity it returns is a
\* number.
C14_DegenerateSimilarityZero ==
  /\ called("cosineSimilarity") =>
       LET a == Get(call).a
           b == Get(call).b
       IN /\ (Len(a) # Len(b) \/ zeroMagnitude(a) \/ zeroMagnitude(b)) =>
               isZero(Get(call).result)
          /\ Get(call).result.na # 0 /\ Get(call).result.nb # 0
  /\ called("findSimilarReports") =>
       LET result == Get(call).result IN
       \A i \in DOMAIN result :
          LET stored == JSONParse(Get(reports[result[i].id].embedding))
              query == Get(Get(call).embedding)
          IN /\ result[i].similarity.na # 0 /\ result[i].similarity.nb # 0
             /\ Get(call).threshold = DuplicateThreshold =>
                  /\ Len(stored) = Len(query)
                  /\ ~zeroMagnitude(stored)
                  /\ ~zeroMagnitude(query)

\* C14 witness: findSimilarReports was called with the pipeline threshold
\* on a table that holds a zero vector and a vector of another length,
\* neither excluded, and returned matches
C14_Witness ==
  /\ called("findSimilarReports")
  /\ Get(call).threshold = DuplicateThreshold
  /\ IsSome(Get(call).embedding)
  /\ Get(call).excludeReportId = None
  /\ Get(call).result # <<>>
  /\ \E id \in DOMAIN reports \ unreadable :
       /\ IsSome(reports[id].embedding)
       /\ zeroMagnitude(JSONParse(Get(reports[id].embedding)))
  /\ \E id \in DOMAIN reports \ unreadable :
       /\ IsSome(reports[id].embedding)
       /\ Len(JSONParse(Get(reports[id].embedding))) # Len(Get(Get(call).embedding))

\* keyword occurs in text as a substring, letter case of the text ignored
occursIn(keyword, text) ==
  \E i \in 1..(Len(text) - Len(keyword) + 1) :
     \A j \in 1..Len(keyword) :
        \/ text[i + j - 1] = keyword[j]
        \/ /\ text[i + j - 1] \in DOMAIN upperToLower
           /\ upperToLower[text[i + j - 1]] = keyword[j]

\* C15: assessSeverityFromKeywords returns CRITICAL when a critical
\* keyword occurs in the text, else HIGH when a high keyword occurs, else
\* MEDIUM when a medium keyword occurs, and LOW exactly when no keyword of
\* any tier occurs; a text with the keywords "rce" and "xss" gets CRITICAL.
C15_SeverityTierOrder ==
  called("assessSeverityFromKeywords") =>
    LET text == Get(call).text
        result == Get(call).result
        critical == \E k \in criticalKeywords : occursIn(k, text)
        high == \E k \in highKeywords : occursIn(k, text)
        medium == \E k \in mediumKeywords : occursIn(k, text)
    IN /\ critical => result = "CRITICAL"
       /\ (~critical /\ high) => result = "HIGH"
       /\ (~critical /\ ~high /\ medium) => result = "MEDIUM"
       /\ result = "LOW" <=> (~critical /\ ~high /\ ~medium)
       /\ (occursIn(<<"r", "c", "e">>, text) /\ occursIn(<<"x", "s", "s">>, text))
            => result = "CRITICAL"

\* C15 witness: a text in which the medium keyword "xss" comes before the
\* critical keyword "rce", in other letter case, was rated CRITICAL
C15_Witness ==
  /\ called("assessSeverityFromKeywords")
  /\ Get(call).text = <<"X", "s", "s", " ", "R", "C", "E">>
  /\ Get(call).result = "CRITICAL"

\* C16: for every bug type an analysis can carry, assignEngineer targets
\* frontend for XSS; backend for SQL Injection; security for CSRF,
\* Authentication Bypass, Authorization, Session Management, Cryptography
\* and Information Disclosure; infrastructure for Network Security, Denial
\* of Service, Configuration, SSRF and RCE.
C16_TeamTable ==
  called("suggestedTeam") =>
    LET bugType == Get(call).bugType
        result == Get(call).result
    IN /\ bugType = "XSS" => result = "frontend"
       /\ bugType = "SQL Injection" => result = "backend"
       /\ bugType \in {"CSRF", "Authentication Bypass", "Authorization",
                        "Session Management", "Cryptography",
                        "Information Disclosure"} => result = "security"
       /\ bugType \in {"Network Security", "Denial of Service", "Configuration",
                        "SSRF", "RCE"} => result = "infrastructure"

\* the run has been through assignEngineer's selection
selectedBy(run) == IsSome(run.selected)

\* C17 as stated: in a run that reached assign, when the mapped team has
\* no engineer but an ENGINEER-role user exists, assign succeeds with an
\* engineer of the whole pool; when the mapped team has an engineer, the
\* selected engineer is of that team and the whole pool is not queried.
C17_PoolFallbackAlwaysSucceeds ==
  \A k \in DOMAIN runs :
     LET run == runs[k]
         team == suggestedTeamOf(Get(run.analysis).bugType)
     IN (run.pc = "done" /\ IsSome(run.assignmentResult)) =>
        /\ (teamEngineers(users, team) = {} /\ engineersIn(users) # {}) =>
             /\ Get(run.assignmentResult).success
             /\ \E e \in engineersIn(users) : Get(run.selected).id = e.id
        /\ teamEngineers(users, team) # {} =>
             /\ selectedBy(run) => Get(run.selected).team = Some(team)
             /\ run.engineerQueries = 1

\* C17 amended: in a run that reached assign, when the mapped team has no
\* engineer but an ENGINEER-role user exists, the whole pool is queried and
\* assign fails only through a failed storage operation, never for lack of
\* candidates; when it succeeds the assigned engineer is an ENGINEER-role
\* user of the whole pool.  When the mapped team has an engineer, the
\* selected engineer is of that team and the whole pool is not queried.
C17_PoolFallbackUnlessStorageFails ==
  \A k \in DOMAIN runs :
     LET run == runs[k]
         team == suggestedTeamOf(Get(run.analysis).bugType)
     IN /\ (run.pc = "done" /\ IsSome(run.assignmentResult)) =>
           /\ (teamEngineers(users, team) = {} /\ engineersIn(users) # {}) =>
                LET result == Get(run.assignmentResult) IN
                /\ ~result.success => result.error = "Failed to assign engineer"
                /\ result.success =>
                     /\ run.engineerQueries = 2
                     /\ \E e \in engineersIn(users) :
                          result.assignedEngineerId = Some(e.id)
           /\ teamEngineers(users, team) # {} => run.engineerQueries = 1
        /\ (selectedBy(run) /\ teamEngineers(users, team) # {}) =>
             /\ Get(run.selected).team = Some(team)
             /\ run.engineerQueries = 1

\* C17 witness: a finished run assigned the report to an engineer of
\* another team because the mapped team had none
C17_Witness ==
  \E k \in DOMAIN runs :
     LET run == runs[k]
         team == suggestedTeamOf(Get(run.analysis).bugType)
     IN /\ run.pc = "done"
        /\ IsSome(run.assignmentResult)
        /\ Get(run.assignmentResult).success
        /\ teamEngineers(users, team) = {}
        /\ Get(run.selected).team # Some(team)
        /\ run.engineerQueries = 2

\* C18: of two candidates of one selectBestEngineer call with the same
\* team and the same number of critical reports, the one with strictly
\* more active reports never has the higher score, whatever the bug type
\* and severity of the analysis, and is not the one selected.
C18_ScoreMonotoneInWorkload ==
  called("selectBestEngineer") =>
    \A a \in Get(call).engineers, b \in Get(call).engineers :
       ( /\ a.team = b.team
         /\ a.criticalReports = b.criticalReports
         /\ a.activeReports > b.activeReports ) =>
         /\ Get(call).scores[a] <= Get(call).scores[b]
         /\ Get(call).result # a

\* C18 witness: of two engineers of the team the bug type maps to, with
\* one critical report each, the less loaded one was selected for a
\* CRITICAL report
C18_Witness ==
  /\ called("selectBestEngineer")
  /\ Get(call).analysis = [bugType |-> "XSS", severity |-> "CRITICAL"]
  /\ \E a \in Get(call).engineers, b \in Get(call).engineers :
       /\ a.team = Some("frontend") /\ b.team = Some("frontend")
       /\ a.criticalReports = 1 /\ b.criticalReports = 1
       /\ a.activeReports > b.activeReports
       /\ Get(call).result = b

\* the assignments of the report that were ACTIVE when the call started
activeBefore(c) ==
  { i \in DOMAIN c.before.assignments :
      /\ c.before.assignments[i].reportId = c.reportId
      /\ c.before.assignments[i].status = "ACTIVE" }

\* C19: when reassignReport has returned success, every Assignment of the
\* report that was ACTIVE at the start is REASSIGNED and otherwise as it
\* was, every other Assignment is as it was and none is gone, exactly one
\* Assignment was added, ACTIVE and to the new engineer, the report's
\* assigned-engineer reference is the new engineer, and exactly one comment
\* was added, on the report and authored by the actor; the report's only
\* ACTIVE Assignment is the new one.
C19_ReassignKeepsHistory ==
  (returnedCall /\ Get(Get(call).result).success) =>
    LET c == Get(call)
        old == c.before.assignments
        added == Len(old) + 1
    IN /\ Len(assignments) = added
       /\ \A i \in DOMAIN old :
            /\ assignments[i].reportId = old[i].reportId
            /\ assignments[i].engineerId = old[i].engineerId
            /\ assignments[i].assignedBy = old[i].assignedBy
            /\ assignments[i].status =
                 IF i \in activeBefore(c) THEN "REASSIGNED" ELSE old[i].status
       /\ assignments[added] =
            [reportId |-> c.reportId, engineerId |-> c.newEngineerId,
             assignedBy |-> c.assignedBy, status |-> "ACTIVE"]
       /\ reports[c.reportId].assignedEngineerId = Some(c.newEngineerId)
       /\ Len(comments) = Len(c.before.comments) + 1
       /\ IsPrefix(c.before.comments, comments)
       /\ comments[Len(comments)].reportId = c.reportId
       /\ comments[Len(comments)].userId = c.assignedBy
       /\ { i \in assignmentsOf(c.reportId) : assignments[i].status = "ACTIVE" }
            = {added}

\* C19 witness: a successful reassign of a report that had two ACTIVE
\* Assignments, next to another report's ACTIVE Assignment
C19_Witness ==
  /\ returnedCall
  /\ Get(Get(call).result).success
  /\ Cardinality(activeBefore(Get(call))) = 2
  /\ \E i \in DOMAIN assignments :
       assignments[i].reportId # Get(call).reportId /\ assignments[i].status = "ACTIVE"

\* C20: when the target of a returned reassignReport names no user or a
\* user whose role is not ENGINEER, the call has failed (with 'Invalid
\* engineer selected' when the lookup worked) and the report, assignment
\* and comment tables are as they were when it started; and in every state
\* every report's assigned-engineer reference names an ENGINEER-role user.
C20_InvalidTargetRejected ==
  /\ returnedCall =>
       LET c == Get(call)
           result == Get(c.result)
       IN (\A u \in users : u.id = c.newEngineerId => u.role # "ENGINEER") =>
            /\ ~result.success
            /\ result.error \in {"Invalid engineer selected", "Failed to reassign report"}
            /\ reports = c.before.reports
            /\ assignments = c.before.assignments
            /\ comments = c.before.comments
  /\ reassignAt("assignment.updateMany") =>
       \E u \in users : u.id = Get(call).newEngineerId /\ u.role = "ENGINEER"
  /\ \A r \in DOMAIN reports :
       IsSome(reports[r].assignedEngineerId) =>
         \E u \in users :
            u.id = Get(reports[r].assignedEngineerId) /\ u.role = "ENGINEER"

\* C20 witness: a reassign to a user of another role was rejected, after a
\* reassign that had succeeded
C20_Witness ==
  /\ returnedCall
  /\ Get(call).number = 2
  /\ Get(call).newEngineerId = "system"
  /\ Get(call).result = Some(invalidEngineer)
  /\ Len(comments) = 1

\* the invocation has written its analysis, embedding and duplicate marking
persisted(k) == "update-report-analysis" \in Range(runs[k].steps)

\* the embeddings of the two invocations are above the duplicate threshold
\* of each other
mutuallySimilar(k, l) ==
  /\ IsSome(runs[k].embedding) /\ IsSome(runs[l].embedding)
  /\ AtLeast(cosineSimilarity(Get(runs[k].embedding), Get(runs[l].embedding)),
             DuplicateThreshold)
  /\ AtLeast(cosineSimilarity(Get(runs[l].embedding), Get(runs[k].embedding)),
             DuplicateThreshold)

\* two invocations for different reports that are under way at the same
\* time, both past update-report-analysis, with mutually similar embeddings
racing ==
  { p \in (DOMAIN runs) \X (DOMAIN runs) :
      /\ p[1][1] # p[2][1]
      /\ persisted(p[1]) /\ persisted(p[2])
      /\ runs[p[1]].pc \notin {"done", "failed"}
      /\ runs[p[2]].pc \notin {"done", "failed"}
      /\ mutuallySimilar(p[1], p[2]) }

\* report i is marked DUPLICATE of report j
duplicateOf(i, j) ==
  reports[i].status = "DUPLICATE" /\ reports[i].duplicateOfId = Some(j)

submitted == DOMAIN reports \ {1}

\* C22: every report created through submission has its report.submitted
\* event pending or has been picked up by an invocation of processReport,
\* and by no more than one.
C22_ExactlyOneTriagePass ==
  \A id \in submitted :
     /\ id \in queue \/ invocationsOf(id) # {}
     /\ Cardinality(invocationsOf(id)) <= 1

\* the step creates report row id
creates(id) == id \notin DOMAIN reports /\ id \in DOMAIN reports'

\* C23 as stated: a report is created in status NEW with bug type,
\* severity, analysis payload, embedding, duplicate-of and assigned engineer
\* all empty, and a step that creates a report changes no stored report.
C23_CreatedWithNoTriageField ==
  [][ \A id \in DOMAIN reports' :
        creates(id) =>
          /\ reports'[id].status = "NEW"
          /\ reports'[id].bugType = None
          /\ reports'[id].severity = None
          /\ reports'[id].aiAnalysis = None
          /\ reports'[id].embedding = None
          /\ reports'[id].duplicateOfId = None
          /\ reports'[id].assignedEngineerId = None
          /\ \A other \in DOMAIN reports : reports'[other] = reports[other]
    ]_vars

\* C23 amended: a report is created in status NEW with bug type, analysis
\* payload, embedding, duplicate-of and assigned engineer empty, and with
\* the severity of the submission: the reporter's value when one was given,
\* empty otherwise.  A step that creates a report changes no stored report,
\* and a step that changes a stored report is a step of an invocation of
\* processReport.
C23_CreatedWithReporterSeverity ==
  [][ /\ \A id \in DOMAIN reports' :
          creates(id) =>
            /\ reports'[id].status = "NEW"
            /\ reports'[id].bugType = None
            /\ reports'[id].aiAnalysis = None
            /\ reports'[id].embedding = None
            /\ reports'[id].duplicateOfId = None
            /\ reports'[id].assignedEngineerId = None
            /\ \E body \in SubmissionInputs :
                 /\ reports'[id].title = body.title
                 /\ reports'[id].description = body.description
                 /\ reports'[id].severity = body.severity
            /\ \A other \in DOMAIN reports : reports'[other] = reports[other]
            /\ runs' = runs
      /\ \A id \in DOMAIN reports :
          reports'[id] # reports[id] =>
            /\ response' = response
            /\ \E k \in DOMAIN runs :
                 /\ runs[k].reportId = id
                 /\ runs'[k] # runs[k]
    ]_vars

\* C23 witness: a report submitted with severity LOW is stored with that
\* severity before any invocation has started for it
C23_Witness ==
  \E id \in submitted :
     /\ invocationsOf(id) = {}
     /\ reports[id].status = "NEW"
     /\ reports[id].severity = Some("LOW")
     /\ reports[id].bugType = None
     /\ reports[id].aiAnalysis = None

\* the step is a request to POST /api/reports/submit that was answered
answers == response' # response \/ Len(reports') # Len(reports)

\* the step stored the submitted report as row id and answered 201 with the
\* id; the event it sent, if any, carries the id
accepted(id) ==
  /\ creates(id)
  /\ DOMAIN reports' = DOMAIN reports \cup {id}
  /\ \A other \in DOMAIN reports : reports'[other] = reports[other]
  /\ validSubmission(reports'[id])
  /\ response' = Some([status |-> 201, success |-> TRUE, reportId |-> Some(id)])
  /\ queue' \in {queue, queue \cup {id}}

\* the step answered with the status, stored nothing and sent nothing
refused(status) ==
  /\ response' = Some([status |-> status, success |-> FALSE, reportId |-> None])
  /\ reports' = reports
  /\ queue' = queue

clears(id) == IsSome(reports[id].embedding) /\ reports'[id].embedding = None

\* C25: a step clears the embedding only of a report whose status is
\* DUPLICATE in the state it is cleared in, and leaves the report's bug
\* type, severity, status, duplicate-of and analysis as they were; a report
\* that is not DUPLICATE keeps its embedding, whatever the cleanup job is
\* interleaved with.
C25_OnlyDuplicatesCleared ==
  [][ \A id \in DOMAIN reports :
        /\ clears(id) =>
             /\ reports[id].status = "DUPLICATE"
             /\ reports'[id] = [reports[id] EXCEPT !.embedding = None]
        /\ reports[id].status # "DUPLICATE" =>
             reports'[id].embedding = reports[id].embedding
    ]_vars

\* the reports of the table that count as the user's workload, and those
\* of them at severity CRITICAL
activeOf(u, db) ==
  { r \in DOMAIN db :
      db[r].assignedEngineerId = Some(u.id) /\ db[r].status \in {"NEW", "IN_PROGRESS"} }
criticalOf(u, db) == { r \in activeOf(u, db) : db[r].severity = Some("CRITICAL") }

\* the team the bug type maps to, security when the table lacks it
mappedTeam(bugType) ==
  IF bugType \in DOMAIN bugTypeToTeamMapping
  THEN bugTypeToTeamMapping[bugType] ELSE "security"

\* the score as the claim states it
statedScore(u, db, analysis) ==
  100 - 10 * Cardinality(activeOf(u, db)) - 20 * Cardinality(criticalOf(u, db))
  + (IF u.team = Some(mappedTeam(analysis.bugType)) THEN 30 ELSE 0)
  - (IF analysis.severity = "CRITICAL" THEN 30 * Cardinality(criticalOf(u, db)) ELSE 0)

\* the candidates of an assign call: the engineers of the mapped team, or
\* all engineers when that team has none
statedCandidates(userTable, bugType) ==
  IF teamEngineers(userTable, mappedTeam(bugType)) # {}
  THEN teamEngineers(userTable, mappedTeam(bugType)) ELSE engineersIn(userTable)

\* C26: the engineer an assign call selects is one of its candidates and
\* no candidate has a higher score, the score being 100 - 10 * active
\* - 20 * critical, plus 30 when the candidate's team is the team the bug
\* type maps to (security for an unmapped type), minus 30 * critical when
\* the analysis is CRITICAL, over the reports assigned to the candidate in
\* status NEW or IN_PROGRESS when the call reads them.
C26_SelectsMaximalScore ==
  [][ \A k \in DOMAIN runs :
        (runs[k].pc = "assign-engineer" /\ runs'[k].pc = "assignment.create") =>
          LET analysis == Get(runs[k].analysis)
              candidates == statedCandidates(users, analysis.bugType)
          IN \E u \in candidates :
                /\ u.id = Get(runs'[k].selected).id
                /\ \A o \in candidates :
                     statedScore(o, reports, analysis) <= statedScore(u, reports, analysis)
    ]_vars

\* C26 witness: for a CRITICAL report an engineer of the mapped team with
\* no report was selected while another engineer of that team holds a
\* CRITICAL report
C26_Witness ==
  \E k \in DOMAIN runs :
     /\ runs[k].pc = "assignment.create"
     /\ Get(runs[k].analysis).severity = "CRITICAL"
     /\ Get(runs[k].selected).activeReports = 0
     /\ \E u \in teamEngineers(users, mappedTeam(Get(runs[k].analysis).bugType)) :
          /\ u.id # Get(runs[k].selected).id
          /\ u.team = Get(runs[k].selected).team
          /\ criticalOf(u, reports) # {}

\* the ACTIVE Assignments of report id
activeOn(id) == { i \in assignmentsOf(id) : assignments[i].status = "ACTIVE" }

\* C27: when no invocation is under way, each report has at most one
\* ACTIVE Assignment, and when it has one, the Assignment's engineer is the
\* report's assigned-engineer reference.
C27_AtMostOneActiveAssignment ==
  Idle =>
    \A id \in DOMAIN reports :
       /\ Cardinality(activeOn(id)) <= 1
       /\ \A i \in activeOn(id) :
            reports[id].assignedEngineerId = Some(assignments[i].engineerId)

\* C28: when reassignReport has returned a failure result, the report,
\* assignment and comment tables are as they were when the call started.
C28_FailureChangesNothing ==
  (returnedCall /\ ~Get(Get(call).result).success) =>
    /\ reports = Get(call).before.reports
    /\ assignments = Get(call).before.assignments
    /\ comments = Get(call).before.comments

\* C29: a report's duplicate-of reference is set exactly when its status
\* is DUPLICATE, and never names the report itself.
C29_DuplicateOfIffDuplicate ==
  \A id \in DOMAIN reports :
     /\ IsSome(reports[id].duplicateOfId) <=> reports[id].status = "DUPLICATE"
     /\ reports[id].duplicateOfId # Some(id)

\* every report in an engineer's hands was assigned by one of the
\* invocations: the engineers had no report when the invocations began
startedIdle ==
  \A r \in DOMAIN reports :
     IsSome(reports[r].assignedEngineerId) => <<r, 1>> \in DOMAIN runs

\* every invocation has ended with a successful assign of a report that is
\* not CRITICAL
allAssigned ==
  \A k \in DOMAIN runs :
     /\ runs[k].pc = "done"
     /\ IsSome(runs[k].assignmentResult)
     /\ Get(runs[k].assignmentResult).success
     /\ Get(runs[k].analysis).severity # "CRITICAL"

\* C30: when the engineers began with no report and every invocation has
\* assigned its non-CRITICAL report, the numbers of active reports of any
\* two engineers of the team the reports map to differ by at most 1.
C30_LoadBalanced ==
  (startedIdle /\ allAssigned) =>
    \A k \in DOMAIN runs :
       \A a \in teamEngineers(users, mappedTeam(Get(runs[k].analysis).bugType)),
          b \in teamEngineers(users, mappedTeam(Get(runs[k].analysis).bugType)) :
          Cardinality(activeOf(a, reports)) - Cardinality(activeOf(b, reports)) <= 1

=============================================================================
